---- MODULE Spec2Model ----
(***************************************************************************)
(* Storage engine of mcp-memory-server: internal/memory/store.go.          *)
(*                                                                         *)
(* A Memory object lives on a heap (Go pointers: the primary index, the    *)
(* base alias, the save queue and the save goroutines all alias the same   *)
(* *Memory).  A versioned id "<base>-v<N>" is the pair <<base, N>>; the    *)
(* base alias "<base>" is the pair <<base, 0>>.  A record file is the      *)
(* snapshot of the Memory that json.Marshal took when it was written.      *)
(***************************************************************************)
EXTENDS Integers, Sequences, FiniteSets, TLC

\* ------------------------------------------------------------------ bounds
\* number of time.Now() readings (Store and Get take one each), in synchronous
\* and in asynchronous mode
MaxTime == 3
MaxAsyncTime == 2
\* cfg.MaxStorageSize, in bytes of encoded record
MaxStorageSize == 20
\* cfg.MaxFileSize; Validate() requires MaxFileSize <= MaxStorageSize
MaxFileSize == MaxStorageSize
\* cfg.QueueSize and cfg.WorkerThreads (asynchronous mode)
QueueSize == 1
WorkerThreads == 1
\* goroutines of Store that have not finished, at most
MaxRoutines == 2

\* ------------------------------------------------------------ maps (Go map)
EmptyMap == << >>
Put(f, k, v) == [x \in (DOMAIN f) \cup {k} |-> IF x = k THEN v ELSE f[x]]
Del(f, k) == [x \in (DOMAIN f) \ {k} |-> f[x]]
\* a missing key of map[string]int64 reads as 0, of map[string][]string as nil
SizeOf(sizes, id) == IF id \in DOMAIN sizes THEN sizes[id] ELSE 0
ListOf(idx, k) == IF k \in DOMAIN idx THEN idx[k] ELSE << >>

\* ------------------------------------------------------------------ strings
Fill(n) == [i \in 1..n |-> "z"]
\* strings.ToLower on the letters the inputs use
ToLower(s) ==
  CASE s = "X" -> "x"
    [] s = "T" -> "t"
    [] s = "G" -> "g"
    [] s = "A" -> "a"
    [] s = "S" -> "s"
    [] s = "W" -> "w"
    [] OTHER -> s
ToLowerText(txt) == [i \in 1..Len(txt) |-> ToLower(txt[i])]
\* strings.Contains on texts (sequences of letters)
Contains(txt, sub) ==
  \E i \in 0..(Len(txt) - Len(sub)) :
     \A j \in 1..Len(sub) : txt[i + j] = sub[j]
\* strings.EqualFold
EqualFold(a, b) == ToLower(a) = ToLower(b)

\* ---------------------------------------------------------------------- ids
NoID == <<0, 0>>
\* the contents the callers store: a short one, one that fits a file but not
\* 90% of the storage, one larger than MaxFileSize, a second short one, and
\* one that is a technical term of the keyword extractor
ContentList ==
  << <<"g", "o">>, Fill(MaxStorageSize - 7), Fill(MaxStorageSize), <<"o", "k">>, <<"a", "p", "i">> >>
Contents == {ContentList[i] : i \in 1..3}
\* generateID: the first 16 hex digits of SHA-256(content), an injective name
generateID(content) == <<CHOOSE i \in 1..Len(ContentList) : ContentList[i] = content, 0>>
\* fmt.Sprintf("%s-v%d", baseID, version)
VersionedID(baseID, version) == <<baseID[1], version>>
\* strings.Contains(id, "-v")
HasVersionSuffix(id) == id[2] # 0
\* id[:strings.LastIndex(id, "-v")]
StripVersion(id) == <<id[1], 0>>

\* ----------------------------------------------------------------- encoding
\* len(json.Marshal(memory)) without compression and encryption: the fields
\* of variable length; the constant part of the encoding is scaled out
Digits(n) == IF n < 10 THEN 1 ELSE 2
BoolLen(b) == IF b THEN Len(<<"t", "r", "u", "e">>) ELSE Len(<<"f", "a", "l", "s", "e">>)
EncodedSize(m) ==
    Len(m.Content) + Len(m.Summary) + Len(m.Tags)
  + (IF m.Category = "" THEN 0 ELSE 1)
  + Digits(m.AccessCount)
  + (IF m.PreviousVersionID = NoID THEN 0 ELSE 2)
  + BoolLen(m.IsCurrentVersion)

\* -------------------------------------------------------------------- codec
\* the configuration of the files: compression, encryption, the key that
\* crypto.New loaded from cfg.EncryptionKeyPath (0: no crypto handler), and
\* cfg.MaxFileSize
PlainConfig ==
  [EnableCompression |-> FALSE, EnableEncryption |-> FALSE, key |-> 0, MaxFileSize |-> MaxFileSize]
\* a file that lost its tail: no layer of the codec accepts it
Truncated == [truncated |-> TRUE]
IsRecord(data) == "ID" \in DOMAIN data
\* gzip.NewWriterLevel, Write, Close; gzip.NewReader, io.ReadAll
Gzip(data) == [gzip |-> data]
IsGzip(data) == "gzip" \in DOMAIN data
\* crypto.Encrypt: the AEAD seal under the key; crypto.Decrypt opens a seal of
\* the same key only
Encrypt(data, key) == [sealed |-> data, key |-> key]
CanDecrypt(data, key) == "sealed" \in DOMAIN data /\ data.key = key
\* the bytes saveMemoryToFile writes for the record that json.Marshal encoded
Encode(memory, cfg) ==
  LET compressed == IF cfg.EnableCompression THEN Gzip(memory) ELSE memory
  IN IF cfg.EnableEncryption /\ cfg.key # 0 THEN Encrypt(compressed, cfg.key) ELSE compressed
\* the layers of loadIndex; suffix is whether the file name ends in ".gz".
\* The result is [ok, memory].
Decode(fileData, suffix, cfg) ==
  LET encrypted == cfg.EnableEncryption /\ cfg.key # 0
      okDecrypt == encrypted => CanDecrypt(fileData, cfg.key)
      data == IF encrypted /\ okDecrypt THEN fileData.sealed ELSE fileData
      okGunzip == suffix => IsGzip(data)
      jsonData == IF suffix /\ okGunzip THEN data.gzip ELSE data
      ok == okDecrypt /\ okGunzip /\ IsRecord(jsonData)
  IN [ok |-> ok, memory |-> IF ok THEN jsonData ELSE Truncated]

\* sync.RWMutex, unlocked
NoLock == [writer |-> 0, readers |-> {}]

VARIABLES
  view,           \* ReadOnlyStore.index of the reporting process: id -> record
  mu,             \* s.mu: the thread that holds it exclusively (0: none), the threads that share it
  callers,        \* the threads that call the store, each with the call it is in
  config,         \* cfg.EnableCompression, cfg.EnableEncryption, cfg.MaxFileSize, the key of s.crypto
  enableAsync,    \* cfg.EnableAsync
  heap,           \* the *Memory objects ever allocated, heap[p] is object p
  index,          \* s.index: id or base alias -> pointer
  categoryIndex,  \* s.categoryIndex: lowercased category -> list of ids
  tagIndex,       \* s.tagIndex: lowercased tag -> list of ids
  versionIndex,   \* s.versionIndex: base alias -> list of ids
  totalSize,      \* s.totalSize
  memorySizes,    \* s.memorySizes: id -> file size
  disk,           \* <data_dir>/memories: id -> the record the file encodes
  now,            \* the clock
  last,           \* the call that returned last
  saveQueue,      \* s.saveQueue: the pointers buffered in the channel
  queueClosed,    \* close(s.saveQueue) has run
  shutdownCh,     \* close(s.shutdownCh) has run
  routines,       \* the goroutines that Store started (store.go:154, 214)
  workers,        \* the saveWorker goroutines
  closer,         \* where Close is
  closeMark       \* the number of records stored when Close was called

storeVars == <<heap, index, categoryIndex, tagIndex, versionIndex, totalSize, memorySizes, disk>>
asyncVars == <<saveQueue, queueClosed, shutdownCh, routines, workers, closer, closeMark>>
vars == <<view, mu, callers, config, enableAsync, heap, index, categoryIndex, tagIndex, versionIndex, totalSize,
          memorySizes, disk, now, last, saveQueue, queueClosed, shutdownCh, routines,
          workers, closer, closeMark>>

\* the store as one value, so that the code's functions compose
StoreState ==
  [heap |-> heap, index |-> index, categoryIndex |-> categoryIndex, tagIndex |-> tagIndex,
   versionIndex |-> versionIndex, totalSize |-> totalSize, memorySizes |-> memorySizes,
   disk |-> disk]

\* ------------------------------------------------------- secondary indices
RemoveFirst(ids, id) ==
  IF \E i \in 1..Len(ids) : ids[i] = id
  THEN LET i == CHOOSE k \in 1..Len(ids) : ids[k] = id /\ \A j \in 1..(k - 1) : ids[j] # id
       IN SubSeq(ids, 1, i - 1) \o SubSeq(ids, i + 1, Len(ids))
  ELSE ids
InList(ids, id) == \E i \in 1..Len(ids) : ids[i] = id
AddKey(idx, k, id) == IF InList(ListOf(idx, k), id) THEN idx ELSE Put(idx, k, Append(ListOf(idx, k), id))
RemoveKey(idx, k, id) ==
  LET ids == RemoveFirst(ListOf(idx, k), id)
  IN IF Len(ids) = 0 THEN Del(idx, k) ELSE Put(idx, k, ids)

RECURSIVE AddTags(_, _, _, _)
AddTags(idx, tags, i, id) ==
  IF i > Len(tags) THEN idx ELSE AddTags(AddKey(idx, ToLower(tags[i]), id), tags, i + 1, id)
RECURSIVE RemoveTags(_, _, _, _)
RemoveTags(idx, tags, i, id) ==
  IF i > Len(tags) THEN idx ELSE RemoveTags(RemoveKey(idx, ToLower(tags[i]), id), tags, i + 1, id)

updateIndices(s, memory) ==
  [s EXCEPT
     !.categoryIndex = IF memory.Category = "" THEN @ ELSE AddKey(@, ToLower(memory.Category), memory.ID),
     !.tagIndex = AddTags(@, memory.Tags, 1, memory.ID)]

removeFromIndices(s, memory) ==
  [s EXCEPT
     !.categoryIndex = IF memory.Category = "" THEN @ ELSE RemoveKey(@, ToLower(memory.Category), memory.ID),
     !.tagIndex = RemoveTags(@, memory.Tags, 1, memory.ID)]

\* ------------------------------------------------------------------- files
\* saveMemoryToFile: marshal, size check, write of the temp file and rename
FitsFile(m) == EncodedSize(m) <= config.MaxFileSize
saveMemoryToFile(s, p) ==
  IF FitsFile(s.heap[p]) THEN [s EXCEPT !.disk = Put(@, s.heap[p].ID, Encode(s.heap[p], config))] ELSE s

\* the storage tracking that follows a successful save
Account(s, id, fileSize) ==
  [s EXCEPT !.totalSize = @ - SizeOf(s.memorySizes, id) + fileSize,
            !.memorySizes = Put(@, id, fileSize)]

\* ------------------------------------------------------------------ Delete
\* a Delete that removes the file before it looks the id up
DeleteRemovesFileFirst(s, id) ==
  IF id \notin DOMAIN s.index THEN [s |-> [s EXCEPT !.disk = Del(@, id)], err |-> "not-found"]
  ELSE IF id \notin DOMAIN s.disk THEN [s |-> s, err |-> "io-failure"]
  ELSE LET memory == s.heap[s.index[id]]
           s1 == [s EXCEPT !.disk = Del(@, id),
                           !.totalSize = @ - SizeOf(s.memorySizes, id),
                           !.memorySizes = Del(@, id)]
           s2 == removeFromIndices(s1, memory)
       IN [s |-> [s2 EXCEPT !.index = Del(@, id)], err |-> ""]
Delete(s, id) ==
  IF id \notin DOMAIN s.index THEN [s |-> s, err |-> "not-found"]
  ELSE IF id \notin DOMAIN s.disk THEN [s |-> s, err |-> "io-failure"]
  ELSE LET memory == s.heap[s.index[id]]
           s1 == [s EXCEPT !.disk = Del(@, id),
                           !.totalSize = @ - SizeOf(s.memorySizes, id),
                           !.memorySizes = Del(@, id)]
           s2 == removeFromIndices(s1, memory)
       IN [s |-> [s2 EXCEPT !.index = Del(@, id)], err |-> ""]

\* ----------------------------------------------------- cleanupOldMemories
\* int64(float64(MaxStorageSize) * 0.9)
\* a retention that stops at the limit itself
targetSizeWithoutMargin == MaxStorageSize
targetSize == (9 * MaxStorageSize) \div 10

\* sort.Slice by lastAccess.Before over the entries of s.index (the base
\* aliases included): any order of the keys that is ascending; ties in any order
RECURSIVE SortedOrders(_, _)
SortedOrders(keys, la) ==
  IF keys = {} THEN { << >> }
  ELSE LET mins == {k \in keys : \A j \in keys : la[k] <= la[j]}
       IN UNION { { <<k>> \o rest : rest \in SortedOrders(keys \ {k}, la) } : k \in mins }

\* the loop over the sorted entries; r.evicted lists what it deleted
RECURSIVE CleanupLoop(_, _, _)
CleanupLoop(r, memories, i) ==
  IF i > Len(memories) \/ r.s.totalSize <= targetSize THEN r
  ELSE LET d == Delete(r.s, memories[i].id)
       IN IF d.err # "" THEN CleanupLoop(r, memories, i + 1)
          ELSE CleanupLoop([s |-> d.s,
                            evicted |-> Append(r.evicted,
                                               [id |-> memories[i].id,
                                                lastAccess |-> memories[i].lastAccess,
                                                before |-> r.s.totalSize])],
                           memories, i + 1)

\* the outcomes of cleanupOldMemories, one per sort order
cleanupOldMemories(s) ==
  LET la == [k \in DOMAIN s.index |-> s.heap[s.index[k]].LastAccess]
  IN { CleanupLoop([s |-> s, evicted |-> << >>],
                   [i \in 1..Len(ord) |-> [id |-> ord[i], lastAccess |-> la[ord[i]]]], 1)
       : ord \in SortedOrders(DOMAIN s.index, la) }

\* ------------------------------------------------------------------- Store
NewMemory(baseID, content, summary, category, tags, version, previousVersionID, t) ==
  [ID |-> VersionedID(baseID, version), Content |-> content, Summary |-> summary,
   Tags |-> tags, Category |-> category, CreatedAt |-> t, AccessCount |-> 0,
   LastAccess |-> t, Version |-> version, PreviousVersionID |-> previousVersionID,
   IsCurrentVersion |-> TRUE]

\* whether Store finds a current version behind the base alias
HasExisting(s, baseID) == baseID \in DOMAIN s.index /\ s.heap[s.index[baseID]].IsCurrentVersion

\* the critical section without s.index[baseID] = memory: the record is
\* reachable by its versioned id only
StoreLockedWithoutAlias(s, content, summary, category, tags, t) ==
  LET baseID == generateID(content)
      found == HasExisting(s, baseID)
      existing == s.index[baseID]
      version == IF found THEN s.heap[existing].Version + 1 ELSE 1
      previousVersionID == IF found THEN s.heap[existing].ID ELSE NoID
      memory == NewMemory(baseID, content, summary, category, tags, version, previousVersionID, t)
      p == Len(s.heap) + 1
      heap1 == IF found THEN [s.heap EXCEPT ![existing].IsCurrentVersion = FALSE] ELSE s.heap
      s1 == [s EXCEPT !.heap = Append(heap1, memory),
                      !.index = Put(@, memory.ID, p),
                      !.versionIndex = Put(@, baseID, Append(ListOf(@, baseID), memory.ID))]
  IN [s |-> updateIndices(s1, memory), p |-> p, found |-> found, existing |-> IF found THEN existing ELSE 0]

\* the first critical section of Store (store.go:140-208), the save of the
\* superseded record left out
StoreLocked(s, content, summary, category, tags, t) ==
  LET baseID == generateID(content)
      found == HasExisting(s, baseID)
      existing == s.index[baseID]
      version == IF found THEN s.heap[existing].Version + 1 ELSE 1
      previousVersionID == IF found THEN s.heap[existing].ID ELSE NoID
      memory == NewMemory(baseID, content, summary, category, tags, version, previousVersionID, t)
      p == Len(s.heap) + 1
      heap1 == IF found THEN [s.heap EXCEPT ![existing].IsCurrentVersion = FALSE] ELSE s.heap
      s1 == [s EXCEPT !.heap = Append(heap1, memory),
                      !.index = Put(Put(@, memory.ID, p), baseID, p),
                      !.versionIndex = Put(@, baseID, Append(ListOf(@, baseID), memory.ID))]
  IN [s |-> updateIndices(s1, memory), p |-> p, found |-> found, existing |-> IF found THEN existing ELSE 0]

\* Store with EnableAsync = false: the outcomes, one per sort order of retention
StoreSyncResults(s, content, summary, category, tags, t) ==
  LET l == StoreLocked(s, content, summary, category, tags, t)
      \* s.saveMemoryToFile(existing), under the lock, result ignored
      s1 == IF l.found THEN saveMemoryToFile(l.s, l.existing) ELSE l.s
      memory == s1.heap[l.p]
  IN IF ~FitsFile(memory)
     THEN { [s |-> s1, p |-> l.p, err |-> "size-limit", cleanup |-> FALSE, evicted |-> << >>] }
     ELSE LET s2 == Account(saveMemoryToFile(s1, l.p), memory.ID, EncodedSize(memory))
          IN IF s2.totalSize > MaxStorageSize
             THEN { [s |-> c.s, p |-> l.p, err |-> "", cleanup |-> TRUE, evicted |-> c.evicted]
                    : c \in cleanupOldMemories(s2) }
             ELSE { [s |-> s2, p |-> l.p, err |-> "", cleanup |-> FALSE, evicted |-> << >>] }

\* --------------------------------------------------------------------- Get
\* a Get that sets the count to 1
GetCountsOnce(s, id, t) ==
  IF id \notin DOMAIN s.index THEN [s |-> s, p |-> 0, err |-> "not-found"]
  ELSE LET p == s.index[id]
           s1 == [s EXCEPT !.heap[p].AccessCount = 1, !.heap[p].LastAccess = t]
       IN [s |-> saveMemoryToFile(s1, p), p |-> p, err |-> ""]
Get(s, id, t) ==
  IF id \notin DOMAIN s.index THEN [s |-> s, p |-> 0, err |-> "not-found"]
  ELSE LET p == s.index[id]
           s1 == [s EXCEPT !.heap[p].AccessCount = @ + 1, !.heap[p].LastAccess = t]
       IN [s |-> saveMemoryToFile(s1, p), p |-> p, err |-> ""]

\* -------------------------------------------------------------- BulkDelete
hasAnyTag(memoryTags, queryTags) ==
  \E i \in 1..Len(queryTags) : \E j \in 1..Len(memoryTags) : EqualFold(memoryTags[j], queryTags[i])

\* the four filters of BulkDelete; BeforeDate = 0 is the zero time
Matches(memory, options) ==
  /\ options.Category = "" \/ memory.Category = options.Category
  /\ Len(options.Tags) = 0 \/ hasAnyTag(memory.Tags, options.Tags)
  /\ options.BeforeDate = 0 \/ memory.CreatedAt < options.BeforeDate
  /\ \/ options.Query = << >>
     \/ Contains(ToLowerText(memory.Content), ToLowerText(options.Query))
     \/ memory.Summary # << >> /\ Contains(ToLowerText(memory.Summary), ToLowerText(options.Query))

NoFilter(options) ==
  options.Category = "" /\ Len(options.Tags) = 0 /\ options.BeforeDate = 0 /\ options.Query = << >>

\* baseIDsToDelete: the loop over s.index (store.go:504-558)
baseIDsToDelete(s, options) ==
  { StripVersion(id) :
      id \in { k \in DOMAIN s.index :
                 /\ ~(~s.heap[s.index[k]].IsCurrentVersion /\ ~HasVersionSuffix(k))
                 /\ Matches(s.heap[s.index[k]], options) } }

\* the orders in which a Go map may range over a set of keys
RECURSIVE MapOrders(_)
MapOrders(keys) ==
  IF keys = {} THEN { << >> }
  ELSE UNION { { <<k>> \o rest : rest \in MapOrders(keys \ {k}) } : k \in keys }

\* toDelete: all versions of the matched bases, then the base alias (store.go:561-580)
RECURSIVE toDelete(_, _, _)
toDelete(s, bases, i) ==
  IF i > Len(bases) THEN << >>
  ELSE ListOf(s.versionIndex, bases[i])
       \o (IF bases[i] \in DOMAIN s.index /\ ~InList(ListOf(s.versionIndex, bases[i]), bases[i])
           THEN <<bases[i]>> ELSE << >>)
       \o toDelete(s, bases, i + 1)

\* one round of the deletion loop (store.go:587-631)
BulkDeleteOne(r, id) ==
  IF id \notin DOMAIN r.s.index THEN r
  ELSE LET memory == r.s.heap[r.s.index[id]]
       IN IF ~HasVersionSuffix(id) /\ memory.Version > 0
          THEN [r EXCEPT !.s.index = Del(@, id)]
          ELSE LET s1 == [r.s EXCEPT !.disk = Del(@, id),
                                     !.totalSize = @ - SizeOf(r.s.memorySizes, id),
                                     !.memorySizes = Del(@, id)]
                   s2 == removeFromIndices(s1, memory)
               IN [s |-> [s2 EXCEPT !.index = Del(@, id)], count |-> r.count + 1]

RECURSIVE BulkDeleteLoop(_, _, _)
BulkDeleteLoop(r, ids, i) ==
  IF i > Len(ids) THEN r ELSE BulkDeleteLoop(BulkDeleteOne(r, ids[i]), ids, i + 1)

RECURSIVE DropVersions(_, _, _)
DropVersions(s, bases, i) ==
  IF i > Len(bases) THEN s
  ELSE DropVersions([s EXCEPT !.versionIndex = Del(@, bases[i])], bases, i + 1)

\* BulkDelete run by one thread, one outcome per map order
BulkDelete(s, options) ==
  IF ~options.Confirm \/ NoFilter(options)
  THEN { [s |-> s, count |-> 0, err |-> "bad-request", bases |-> {}] }
  ELSE { LET r == BulkDeleteLoop([s |-> s, count |-> 0], toDelete(s, bases, 1), 1)
         IN [s |-> DropVersions(r.s, bases, 1), count |-> r.count, err |-> "",
             bases |-> baseIDsToDelete(s, options)]
         : bases \in MapOrders(baseIDsToDelete(s, options)) }

\* ------------------------------------------------------ Search, List
\* candidateIDs of Search and List: nil when neither a category nor tags are
\* given, else the ids of the category list, of the tag lists, or of both
ListIDs(ids) == { ids[i] : i \in 1..Len(ids) }
candidateIDs(s, category, tags) ==
  LET byCategory == ListIDs(ListOf(s.categoryIndex, category))
      byTags == UNION { ListIDs(ListOf(s.tagIndex, ToLower(tags[i]))) : i \in 1..Len(tags) }
  IN [nil |-> category = "" /\ Len(tags) = 0,
      ids |-> IF category # ""
              THEN (IF Len(tags) > 0 THEN byCategory \cap byTags ELSE byCategory)
              ELSE byTags]

\* time.Since(memory.LastAccess) < 24*time.Hour: horizon is the reading of the
\* clock 24 hours before the call
Recent(memory, horizon) == memory.LastAccess > horizon

\* calculateRelevanceScore, in tenths: 1.0, 0.8, 0.5, 0.3 and 0.1
calculateRelevanceScore(memory, query, horizon) ==
    (IF Contains(ToLowerText(memory.Content), ToLowerText(query.Query)) THEN 10 ELSE 0)
  + (IF memory.Summary # << >> /\ Contains(ToLowerText(memory.Summary), ToLowerText(query.Query))
     THEN 8 ELSE 0)
  + (IF query.Category # "" /\ memory.Category = query.Category THEN 5 ELSE 0)
  + (IF Len(query.Tags) > 0 /\ hasAnyTag(memory.Tags, query.Tags) THEN 3 ELSE 0)
  + (IF Recent(memory, horizon) THEN 1 ELSE 0)

\* the limit of Search (store.go:338-349): 20 for 0 and for more than 50
MaxSearchLimit == 50
DefaultSearchLimit == 20
Truncate(results, limit) ==
  LET n == IF limit = 0 \/ limit > MaxSearchLimit THEN DefaultSearchLimit ELSE limit
  IN IF Len(results) > n THEN SubSeq(results, 1, n) ELSE results

\* a Search that keeps the candidates that score 0
SearchKeepsEveryScore(s, query, horizon) ==
  LET c == candidateIDs(s, query.Category, query.Tags)
      score == [k \in DOMAIN s.index |-> calculateRelevanceScore(s.heap[s.index[k]], query, horizon)]
      keys == { k \in DOMAIN s.index : (c.nil \/ k \in c.ids) /\ score[k] >= 0 }
  IN { Truncate([i \in 1..Len(ord) |-> s.index[ord[i]]], query.Limit)
       : ord \in SortedOrders(keys, [k \in keys |-> 0 - score[k]]) }
\* Search: the entries of s.index among the candidates with a positive score,
\* sorted by sort.Slice on the score (descending, ties in any order), truncated
Search(s, query, horizon) ==
  LET c == candidateIDs(s, query.Category, query.Tags)
      score == [k \in DOMAIN s.index |-> calculateRelevanceScore(s.heap[s.index[k]], query, horizon)]
      keys == { k \in DOMAIN s.index : (c.nil \/ k \in c.ids) /\ score[k] > 0 }
  IN { Truncate([i \in 1..Len(ord) |-> s.index[ord[i]]], query.Limit)
       : ord \in SortedOrders(keys, [k \in keys |-> 0 - score[k]]) }

\* List: the candidates found in s.index, or every entry of s.index, sorted
\* by sort.Slice on CreatedAt (descending, ties in any order), cut at limit
List(s, category, tags, limit) ==
  LET c == candidateIDs(s, category, tags)
      keys == IF c.nil THEN DOMAIN s.index ELSE c.ids \cap DOMAIN s.index
  IN { LET results == [i \in 1..Len(ord) |-> s.index[ord[i]]]
       IN IF limit > 0 /\ Len(results) > limit THEN SubSeq(results, 1, limit) ELSE results
       : ord \in SortedOrders(keys, [k \in keys |-> 0 - s.heap[s.index[k]].CreatedAt]) }

\* -------------------------------------------------------------- GetHistory
\* a GetHistory that returns the versions oldest first
GetHistoryOldestFirst(s, id) ==
  LET baseID == IF HasVersionSuffix(id) THEN StripVersion(id) ELSE id
      versionIDs == ListOf(s.versionIndex, baseID)
      found == { i \in 1..Len(versionIDs) : versionIDs[i] \in DOMAIN s.index }
  IN IF Len(versionIDs) = 0
     THEN { [result |-> << >>, err |-> "not-found"] }
     ELSE { [result |-> [i \in 1..Len(ord) |-> s.index[versionIDs[ord[i]]]], err |-> ""]
            : ord \in SortedOrders(found, [i \in found |-> s.heap[s.index[versionIDs[i]]].Version]) }
GetHistory(s, id) ==
  LET baseID == IF HasVersionSuffix(id) THEN StripVersion(id) ELSE id
      versionIDs == ListOf(s.versionIndex, baseID)
      found == { i \in 1..Len(versionIDs) : versionIDs[i] \in DOMAIN s.index }
  IN IF Len(versionIDs) = 0
     THEN { [result |-> << >>, err |-> "not-found"] }
     ELSE { [result |-> [i \in 1..Len(ord) |-> s.index[versionIDs[ord[i]]]], err |-> ""]
            : ord \in SortedOrders(found, [i \in found |-> 0 - s.heap[s.index[versionIDs[i]]].Version]) }

\* ------------------------------------------------------------------- inputs
Summaries == { << >> }
Categories == { "", "x" }
TagLists == { << >> }
\* the ids a caller asks for: the keys of the index, and the first version and
\* the base of the first content (absent until it is stored)
RequestIDs == DOMAIN index \cup { <<1, 0>>, <<1, 1>> }
NoOptions == [Category |-> "", Tags |-> << >>, BeforeDate |-> 0, Query |-> << >>, Confirm |-> FALSE]
BulkOptions ==
  { NoOptions,
    [NoOptions EXCEPT !.Confirm = TRUE],
    [NoOptions EXCEPT !.Category = "x"],
    [NoOptions EXCEPT !.Category = "x", !.Confirm = TRUE],
    [NoOptions EXCEPT !.Query = <<"G">>, !.Confirm = TRUE] }

\* ------------------------------------------------------- synchronous calls
NoQuery == [Query |-> << >>, Tags |-> << >>, Category |-> "", Limit |-> 0]
\* the call that returned last: its inputs (of a Search or List) and its results
NoCall == [op |-> "", err |-> "", p |-> 0, cleanup |-> FALSE, evicted |-> << >>,
           count |-> 0, bases |-> {}, result |-> << >>, query |-> NoQuery, horizon |-> 0,
           id |-> NoID, before |-> EmptyMap, stats |-> EmptyMap]

Assign(s) ==
  /\ heap' = s.heap
  /\ index' = s.index
  /\ categoryIndex' = s.categoryIndex
  /\ tagIndex' = s.tagIndex
  /\ versionIndex' = s.versionIndex
  /\ totalSize' = s.totalSize
  /\ memorySizes' = s.memorySizes
  /\ disk' = s.disk

\* a thread in saveMemoryAsync: the record it saves, the bytes it marshalled,
\* the entries it sorted for retention, and where the file that os.WriteFile
\* holds open is by now ("tmp", "path", "unlinked"; "none": no open file)
Thread(pc, p) ==
  [pc |-> pc, p |-> p, data |-> << >>, memories |-> << >>, i |-> 0, fd |-> "none"]

InitStore ==
  /\ view = EmptyMap
  /\ heap = << >>
  /\ index = EmptyMap
  /\ categoryIndex = EmptyMap
  /\ tagIndex = EmptyMap
  /\ versionIndex = EmptyMap
  /\ totalSize = 0
  /\ memorySizes = EmptyMap
  /\ disk = EmptyMap
  /\ now = 0
  /\ last = NoCall
  /\ saveQueue = << >>
  /\ queueClosed = FALSE
  /\ shutdownCh = FALSE
  /\ routines = << >>
  /\ closer = "open"
  /\ closeMark = 0

\* NewStore with EnableAsync = false on an empty data directory
Init ==
  /\ mu = NoLock
  /\ callers = << >>
  /\ config = PlainConfig
  /\ enableAsync = FALSE
  /\ workers = << >>
  /\ InitStore

StoreSync(content, summary, category, tags) ==
  /\ ~enableAsync
  /\ now < MaxTime
  /\ \E r \in StoreSyncResults(StoreState, content, summary, category, tags, now + 1) :
       /\ Assign(r.s)
       /\ last' = [NoCall EXCEPT !.op = "Store", !.err = r.err, !.p = r.p,
                                 !.cleanup = r.cleanup, !.evicted = r.evicted]
  /\ now' = now + 1
  /\ UNCHANGED <<view, mu, callers, config, enableAsync, asyncVars>>

GetSync(id) ==
  /\ ~enableAsync
  /\ id \in DOMAIN index => now < MaxTime
  /\ LET r == Get(StoreState, id, now + 1)
     IN /\ Assign(r.s)
        /\ last' = [NoCall EXCEPT !.op = "Get", !.err = r.err, !.p = r.p]
        /\ now' = IF r.err = "" THEN now + 1 ELSE now
  /\ UNCHANGED <<view, mu, callers, config, enableAsync, asyncVars>>

DeleteSync(id) ==
  /\ ~enableAsync
  /\ LET r == Delete(StoreState, id)
     IN /\ Assign(r.s)
        /\ last' = [NoCall EXCEPT !.op = "Delete", !.err = r.err]
  /\ UNCHANGED <<view, mu, callers, config, enableAsync, now, asyncVars>>

BulkDeleteSync(options) ==
  /\ ~enableAsync
  /\ \E r \in BulkDelete(StoreState, options) :
       /\ Assign(r.s)
       /\ last' = [NoCall EXCEPT !.op = "BulkDelete", !.err = r.err, !.count = r.count,
                                 !.bases = r.bases]
  /\ UNCHANGED <<view, mu, callers, config, enableAsync, now, asyncVars>>

Next ==
  \/ \E content \in Contents, summary \in Summaries, category \in Categories, tags \in TagLists :
       StoreSync(content, summary, category, tags)
  \/ \E id \in RequestIDs : GetSync(id)
  \/ \E id \in RequestIDs : DeleteSync(id)
  \/ \E options \in BulkOptions : BulkDeleteSync(options)

Spec == Init /\ [][Next]_vars

\* ------------------------------------------- the calls that only read
\* the bound of the clock for the runs that also search and list
MaxQueryTime == 2
\* what the callers store: "go" in category x, and "ok" with a summary and a tag
QueryDocs ==
  { [content |-> ContentList[1], summary |-> << >>, category |-> "x", tags |-> << >>],
    [content |-> ContentList[4], summary |-> <<"g">>, category |-> "", tags |-> <<"T">>] }
SearchQueries ==
  { [NoQuery EXCEPT !.Query = <<"G">>],
    [NoQuery EXCEPT !.Query = <<"G">>, !.Category = "x", !.Limit = 1],
    [NoQuery EXCEPT !.Query = <<"q">>, !.Tags = <<"t">>],
    [NoQuery EXCEPT !.Query = <<"q">>] }
ListFilters ==
  { [category |-> "", tags |-> << >>, limit |-> 0],
    [category |-> "x", tags |-> << >>, limit |-> 1],
    [category |-> "", tags |-> <<"t">>, limit |-> 0] }

\* NewStore with EnableAsync = false; the clock starts later
InitQuery ==
  /\ mu = NoLock
  /\ callers = << >>
  /\ config = PlainConfig
  /\ enableAsync = FALSE
  /\ workers = << >>
  /\ view = EmptyMap
  /\ heap = << >>
  /\ index = EmptyMap
  /\ categoryIndex = EmptyMap
  /\ tagIndex = EmptyMap
  /\ versionIndex = EmptyMap
  /\ totalSize = 0
  /\ memorySizes = EmptyMap
  /\ disk = EmptyMap
  /\ now = MaxTime - MaxQueryTime
  /\ last = NoCall
  /\ saveQueue = << >>
  /\ queueClosed = FALSE
  /\ shutdownCh = FALSE
  /\ routines = << >>
  /\ closer = "open"
  /\ closeMark = 0

SearchSync(query, horizon) ==
  /\ ~enableAsync
  /\ \E result \in Search(StoreState, query, horizon) :
       last' = [NoCall EXCEPT !.op = "Search", !.result = result, !.query = query,
                                 !.horizon = horizon]
  /\ UNCHANGED <<view, mu, callers, config, enableAsync, storeVars, now, asyncVars>>

ListSync(category, tags, limit) ==
  /\ ~enableAsync
  /\ \E result \in List(StoreState, category, tags, limit) :
       last' = [NoCall EXCEPT !.op = "List", !.result = result,
                                 !.query = [NoQuery EXCEPT !.Category = category, !.Tags = tags,
                                                           !.Limit = limit]]
  /\ UNCHANGED <<view, mu, callers, config, enableAsync, storeVars, now, asyncVars>>

GetHistorySync(id) ==
  /\ ~enableAsync
  /\ \E r \in GetHistory(StoreState, id) :
       last' = [NoCall EXCEPT !.op = "GetHistory", !.err = r.err, !.result = r.result, !.id = id]
  /\ UNCHANGED <<view, mu, callers, config, enableAsync, storeVars, now, asyncVars>>

NextQuery ==
  \/ \E d \in QueryDocs : StoreSync(d.content, d.summary, d.category, d.tags)
  \/ \E id \in RequestIDs : GetSync(id)
  \/ \E id \in RequestIDs : DeleteSync(id)
  \/ \E options \in BulkOptions : BulkDeleteSync(options)
  \/ \E query \in SearchQueries, horizon \in (MaxTime - MaxQueryTime)..now : SearchSync(query, horizon)
  \/ \E f \in ListFilters : ListSync(f.category, f.tags, f.limit)
  \/ \E id \in RequestIDs : GetHistorySync(id)

SpecQuery == InitQuery /\ [][NextQuery]_vars

\* ---------------------------------------------------- the limit of Search
\* the ranked candidates of a Search, at most
MaxResults == 52
Limits == { 0, 1, 20, 21, 50, 51, 100 }

\* the truncation of Search (store.go:338-349) applied to n ranked candidates
SearchLimit(n, limit) ==
  /\ last' = [NoCall EXCEPT !.op = "Truncate", !.count = n,
                            !.query = [NoQuery EXCEPT !.Limit = limit],
                            !.result = Truncate([i \in 1..n |-> i], limit)]
  /\ UNCHANGED <<view, mu, callers, config, enableAsync, storeVars, now, asyncVars>>

NextLimit == \E n \in 0..MaxResults, limit \in Limits : SearchLimit(n, limit)

SpecLimit == Init /\ [][NextLimit]_vars

\* ------------------------------------------------------ asynchronous mode
\* saveMemoryAsync, one step at a time: json.Marshal with the size check
\* ("save"), the write and rename of the file ("write"), the storage tracking
\* under the lock ("account"), then cleanupOldMemories: the sort of the entries
\* of s.index ("sort") and one round of its loop per step ("cleanup").  Each
\* outcome is the thread afterwards and the store afterwards.
SaveSteps(th) ==
  CASE th.pc = "save" ->
         IF FitsFile(heap[th.p])
         THEN { [th |-> [th EXCEPT !.pc = "write", !.data = heap[th.p]], s |-> StoreState] }
         ELSE { [th |-> [th EXCEPT !.pc = "done"], s |-> StoreState] }
    [] th.pc = "write" ->
         { [th |-> [th EXCEPT !.pc = "account"],
            s |-> [StoreState EXCEPT !.disk = Put(@, th.data.ID, Encode(th.data, config))]] }
    [] th.pc = "account" ->
         LET s1 == Account(StoreState, th.data.ID, EncodedSize(th.data))
         IN { [th |-> [th EXCEPT !.pc = IF s1.totalSize > MaxStorageSize THEN "sort" ELSE "done",
                                 !.data = << >>],
               s |-> s1] }
    [] th.pc = "sort" ->
         LET la == [k \in DOMAIN index |-> heap[index[k]].LastAccess]
         IN { [th |-> [th EXCEPT !.pc = "cleanup", !.memories = ord, !.i = 1], s |-> StoreState]
              : ord \in SortedOrders(DOMAIN index, la) }
    [] th.pc = "cleanup" ->
         IF th.i > Len(th.memories) \/ totalSize <= targetSize
         THEN { [th |-> [th EXCEPT !.pc = "done", !.memories = << >>, !.i = 0], s |-> StoreState] }
         ELSE { [th |-> [th EXCEPT !.i = @ + 1], s |-> Delete(StoreState, th.memories[th.i]).s] }
    [] OTHER -> { }

RemoveAt(seq, k) == SubSeq(seq, 1, k - 1) \o SubSeq(seq, k + 1, Len(seq))
AsyncContents == { ContentList[1], ContentList[2] }
AsyncCategories == { "x" }

\* NewStore with EnableAsync = true on an empty data directory
InitAsync ==
  /\ mu = NoLock
  /\ callers = << >>
  /\ config = PlainConfig
  /\ enableAsync = TRUE
  /\ workers = [w \in 1..WorkerThreads |-> Thread("idle", 0)]
  /\ InitStore

\* Store with EnableAsync = true: the critical section, then the two goroutines
StoreAsync(content, summary, category, tags) ==
  /\ enableAsync
  /\ now < MaxAsyncTime
  /\ LET l == StoreLocked(StoreState, content, summary, category, tags, now + 1)
     IN /\ Len(routines) + (IF l.found THEN 2 ELSE 1) <= MaxRoutines
        /\ Assign(l.s)
        /\ routines' = routines
                        \o (IF l.found THEN <<Thread("send", l.existing)>> ELSE << >>)
                        \o <<Thread("send", l.p)>>
  /\ now' = now + 1
  /\ UNCHANGED <<view, mu, callers, config, enableAsync, last, saveQueue, queueClosed, shutdownCh, workers, closer, closeMark>>

\* Get and Delete with EnableAsync = true: the same critical sections
GetAsync(id) ==
  /\ enableAsync
  /\ now < MaxAsyncTime
  /\ Assign(Get(StoreState, id, now + 1).s)
  /\ now' = now + 1
  /\ UNCHANGED <<view, mu, callers, config, enableAsync, last, asyncVars>>

DeleteAsync(id) ==
  /\ enableAsync
  /\ Assign(Delete(StoreState, id).s)
  /\ UNCHANGED <<view, mu, callers, config, enableAsync, now, last, asyncVars>>

\* the goroutine without its deferred recover: the send on the closed queue
\* panics and the goroutine ends there, its record unsaved
RoutineSendUnrecovered(k) ==
  /\ routines[k].pc = "send"
  /\ IF queueClosed
     THEN /\ routines' = RemoveAt(routines, k)
          /\ UNCHANGED saveQueue
     ELSE IF Len(saveQueue) < QueueSize
          THEN /\ saveQueue' = Append(saveQueue, routines[k].p)
               /\ routines' = RemoveAt(routines, k)
          ELSE /\ routines' = [routines EXCEPT ![k].pc = "save"]
               /\ UNCHANGED saveQueue
  /\ UNCHANGED <<view, mu, callers, config, enableAsync, storeVars, now, last, queueClosed, shutdownCh, workers, closer, closeMark>>

\* the select of a goroutine of Store: the send, or the fall back to
\* saveMemoryAsync when the queue is full or (after the panic) closed
RoutineSend(k) ==
  /\ routines[k].pc = "send"
  /\ IF ~queueClosed /\ Len(saveQueue) < QueueSize
     THEN /\ saveQueue' = Append(saveQueue, routines[k].p)
          /\ routines' = RemoveAt(routines, k)
     ELSE /\ routines' = [routines EXCEPT ![k].pc = "save"]
          /\ UNCHANGED saveQueue
  /\ UNCHANGED <<view, mu, callers, config, enableAsync, storeVars, now, last, queueClosed, shutdownCh, workers, closer, closeMark>>

RoutineSave(k) ==
  /\ \E o \in SaveSteps(routines[k]) :
       /\ Assign(o.s)
       /\ routines' = IF o.th.pc = "done" THEN RemoveAt(routines, k)
                                          ELSE [routines EXCEPT ![k] = o.th]
  /\ UNCHANGED <<view, mu, callers, config, enableAsync, now, last, saveQueue, queueClosed, shutdownCh, workers, closer, closeMark>>

\* saveWorker: a receive from the queue, in the main select or in the drain loop
WorkerReceive(w) ==
  /\ workers[w].pc = "idle"
  /\ saveQueue # << >>
  /\ workers' = [workers EXCEPT ![w].pc = "save", ![w].p = Head(saveQueue)]
  /\ saveQueue' = Tail(saveQueue)
  /\ UNCHANGED <<view, mu, callers, config, enableAsync, storeVars, now, last, queueClosed, shutdownCh, routines, closer, closeMark>>

\* saveWorker returns: the queue is closed and empty (either select), or the
\* shutdown signal was received and the drain loop finds the queue empty
WorkerExit(w) ==
  /\ workers[w].pc = "idle"
  /\ saveQueue = << >>
  /\ shutdownCh \/ queueClosed
  /\ workers' = [workers EXCEPT ![w].pc = "exited"]
  /\ UNCHANGED <<view, mu, callers, config, enableAsync, storeVars, now, last, saveQueue, queueClosed, shutdownCh, routines, closer, closeMark>>

WorkerSave(w) ==
  /\ \E o \in SaveSteps(workers[w]) :
       /\ Assign(o.s)
       /\ workers' = [workers EXCEPT ![w] = IF o.th.pc = "done" THEN [o.th EXCEPT !.pc = "idle", !.p = 0]
                                                                 ELSE o.th]
  /\ UNCHANGED <<view, mu, callers, config, enableAsync, now, last, saveQueue, queueClosed, shutdownCh, routines, closer, closeMark>>

\* Close: close(s.shutdownCh)
CloseSignal ==
  /\ enableAsync /\ closer = "open"
  /\ shutdownCh' = TRUE
  /\ closer' = "signalled"
  /\ closeMark' = Len(heap)
  /\ UNCHANGED <<view, mu, callers, config, enableAsync, storeVars, now, last, saveQueue, queueClosed, routines, workers>>

\* Close: close(s.saveQueue), after the sleep
CloseQueue ==
  /\ closer = "signalled"
  /\ queueClosed' = TRUE
  /\ closer' = "waiting"
  /\ UNCHANGED <<view, mu, callers, config, enableAsync, storeVars, now, last, saveQueue, shutdownCh, routines, workers, closeMark>>

\* a Close that returns nil without waiting for s.wg
CloseReturnWithoutWait ==
  /\ closer = "waiting"
  /\ closer' = "done"
  /\ UNCHANGED <<view, mu, callers, config, enableAsync, storeVars, now, last, saveQueue, queueClosed, shutdownCh, routines, workers, closeMark>>

\* Close returns nil: s.wg.Wait() returned before the 30 seconds
CloseReturn ==
  /\ closer = "waiting"
  /\ \A w \in DOMAIN workers : workers[w].pc = "exited"
  /\ closer' = "done"
  /\ UNCHANGED <<view, mu, callers, config, enableAsync, storeVars, now, last, saveQueue, queueClosed, shutdownCh, routines, workers, closeMark>>

\* Close returns the timeout error: a worker is still running after 30 seconds
CloseTimeout ==
  /\ closer = "waiting"
  /\ \E w \in DOMAIN workers : workers[w].pc # "exited"
  /\ closer' = "timeout"
  /\ UNCHANGED <<view, mu, callers, config, enableAsync, storeVars, now, last, saveQueue, queueClosed, shutdownCh, routines, workers, closeMark>>

NextAsync ==
  \/ \E content \in AsyncContents, summary \in Summaries, category \in AsyncCategories, tags \in TagLists :
       StoreAsync(content, summary, category, tags)
  \/ \E id \in DOMAIN index : GetAsync(id)
  \/ \E id \in DOMAIN index : DeleteAsync(id)
  \/ \E k \in DOMAIN routines : RoutineSend(k)
  \/ \E k \in DOMAIN routines : RoutineSave(k)
  \/ \E w \in DOMAIN workers : WorkerReceive(w)
  \/ \E w \in DOMAIN workers : WorkerExit(w)
  \/ \E w \in DOMAIN workers : WorkerSave(w)
  \/ CloseSignal
  \/ CloseQueue
  \/ CloseReturn
  \/ CloseTimeout

SpecAsync == InitAsync /\ [][NextAsync]_vars

\* ------------------------------------------- Store around and after Close
MaxClosedTime == 2

\* NewStore with EnableAsync = true on an empty data directory, then Close,
\* which returned nil: both channels are closed and every saveWorker has
\* returned; there is room for MaxClosedTime calls of Store
InitClosed ==
  /\ mu = NoLock
  /\ callers = << >>
  /\ config = PlainConfig
  /\ enableAsync = TRUE
  /\ view = EmptyMap
  /\ heap = << >>
  /\ index = EmptyMap
  /\ categoryIndex = EmptyMap
  /\ tagIndex = EmptyMap
  /\ versionIndex = EmptyMap
  /\ totalSize = 0
  /\ memorySizes = EmptyMap
  /\ disk = EmptyMap
  /\ now = MaxAsyncTime - MaxClosedTime
  /\ last = NoCall
  /\ saveQueue = << >>
  /\ queueClosed = TRUE
  /\ shutdownCh = TRUE
  /\ routines = << >>
  /\ workers = [w \in 1..WorkerThreads |-> Thread("exited", 0)]
  /\ closer = "done"
  /\ closeMark = 0

NextClosed ==
  \/ \E content \in AsyncContents, summary \in Summaries, category \in AsyncCategories, tags \in TagLists :
       StoreAsync(content, summary, category, tags)
  \/ \E k \in DOMAIN routines : RoutineSend(k)
  \/ \E k \in DOMAIN routines : RoutineSave(k)

SpecClosed == InitClosed /\ [][NextClosed]_vars

\* ------------------------------------- the file operations of one save
\* filepath + ".tmp" of the record file of id, in the same directory
TempName(id) == <<id[1], id[2], "tmp">>
IsTempName(name) == Len(name) = 3

\* what os.Rename of the temp file of id does to the files that other threads
\* hold open: the file opened as the temp file is now the record file, and the
\* file that was the record file has no name
AfterRename(threads, id) ==
  [k \in DOMAIN threads |->
     IF threads[k].p # 0 /\ heap[threads[k].p].ID = id
     THEN [threads[k] EXCEPT !.fd = CASE @ = "tmp" -> "path"
                                      [] @ = "path" -> "unlinked"
                                      [] OTHER -> @]
     ELSE threads[k]]

\* saveMemoryAsync with the file operations of saveMemoryToFile one at a time:
\* json.Marshal and the size check ("save"), os.WriteFile opens the temp file
\* with O_CREATE|O_TRUNC ("open"), writes the bytes and closes ("fill"),
\* os.Rename ("rename"); then as SaveSteps.  renamed: os.Rename succeeded.
FileSteps(th) ==
  LET id == heap[th.p].ID
  IN CASE th.pc = "save" ->
            IF FitsFile(heap[th.p])
            THEN { [th |-> [th EXCEPT !.pc = "open", !.data = heap[th.p]], s |-> StoreState,
                    renamed |-> FALSE] }
            ELSE { [th |-> [th EXCEPT !.pc = "done"], s |-> StoreState, renamed |-> FALSE] }
       [] th.pc = "open" ->
            { [th |-> [th EXCEPT !.pc = "fill", !.fd = "tmp"],
               s |-> [StoreState EXCEPT !.disk = Put(@, TempName(id), Truncated)],
               renamed |-> FALSE] }
       [] th.pc = "fill" ->
            { [th |-> [th EXCEPT !.pc = "rename", !.fd = "none"],
               s |-> [StoreState EXCEPT
                        !.disk = CASE th.fd = "tmp" -> Put(@, TempName(id), Encode(th.data, config))
                                   [] th.fd = "path" -> Put(@, id, Encode(th.data, config))
                                   [] OTHER -> @],
               renamed |-> FALSE] }
       [] th.pc = "rename" ->
            IF TempName(id) \in DOMAIN disk
            THEN { [th |-> [th EXCEPT !.pc = "account"],
                    s |-> [StoreState EXCEPT !.disk = Put(Del(@, TempName(id)), id, disk[TempName(id)])],
                    renamed |-> TRUE] }
            ELSE { [th |-> [th EXCEPT !.pc = "done", !.data = << >>], s |-> StoreState,
                    renamed |-> FALSE] }
       [] OTHER -> { [th |-> o.th, s |-> o.s, renamed |-> FALSE] : o \in SaveSteps(th) }

\* a goroutine of Store in its fallback save, one file operation at a time
RoutineFile(k) ==
  /\ \E o \in FileSteps(routines[k]) :
       LET id == heap[routines[k].p].ID
           moved == IF o.renamed THEN AfterRename(routines, id) ELSE routines
       IN /\ Assign(o.s)
          /\ routines' = IF o.th.pc = "done" THEN RemoveAt(moved, k)
                                             ELSE [moved EXCEPT ![k] = o.th]
          /\ workers' = IF o.renamed THEN AfterRename(workers, id) ELSE workers
  /\ UNCHANGED <<view, mu, callers, config, enableAsync, now, last, saveQueue, queueClosed, shutdownCh, closer, closeMark>>

\* a worker in saveMemoryAsync, one file operation at a time
WorkerFile(w) ==
  /\ \E o \in FileSteps(workers[w]) :
       LET id == heap[workers[w].p].ID
           moved == IF o.renamed THEN AfterRename(workers, id) ELSE workers
       IN /\ Assign(o.s)
          /\ workers' = [moved EXCEPT ![w] = IF o.th.pc = "done" THEN [o.th EXCEPT !.pc = "idle", !.p = 0]
                                                                 ELSE o.th]
          /\ routines' = IF o.renamed THEN AfterRename(routines, id) ELSE routines
  /\ UNCHANGED <<view, mu, callers, config, enableAsync, now, last, saveQueue, queueClosed, shutdownCh, closer, closeMark>>

\* the callers store one content again and again
WriteContents == { ContentList[1] }

NextWrite ==
  \/ \E content \in WriteContents, summary \in Summaries, category \in AsyncCategories, tags \in TagLists :
       StoreAsync(content, summary, category, tags)
  \/ \E k \in DOMAIN routines : RoutineSend(k)
  \/ \E k \in DOMAIN routines : RoutineFile(k)
  \/ \E w \in DOMAIN workers : WorkerReceive(w)
  \/ \E w \in DOMAIN workers : WorkerFile(w)

SpecWrite == InitAsync /\ [][NextWrite]_vars

\* ----------------------------------------------------------------- GetStats
RECURSIVE CountCategories(_, _, _)
CountCategories(s, keys, categories) ==
  IF keys = {} THEN categories
  ELSE LET k == CHOOSE x \in keys : TRUE
           category == s.heap[s.index[k]].Category
       IN CountCategories(s, keys \ {k},
                          IF category = "" THEN categories
                          ELSE Put(categories, category, SizeOf(categories, category) + 1))
RECURSIVE TotalAccess(_, _)
TotalAccess(s, keys) ==
  IF keys = {} THEN 0
  ELSE LET k == CHOOSE x \in keys : TRUE
       IN s.heap[s.index[k]].AccessCount + TotalAccess(s, keys \ {k})
\* the map GetStats returns (the data directory and the percentage left out)
GetStats(s) ==
  [total_memories |-> Cardinality(DOMAIN s.index),
   categories |-> CountCategories(s, DOMAIN s.index, EmptyMap),
   total_access_count |-> TotalAccess(s, DOMAIN s.index),
   total_size |-> s.totalSize,
   max_storage_size |-> MaxStorageSize]

\* ---------------------------------------------------- NewStore and loadIndex
\* os.ReadDir: the entries sorted by file name
RECURSIVE ReadDir(_)
ReadDir(names) ==
  IF names = {} THEN << >>
  ELSE LET name == CHOOSE x \in names :
                     \A y \in names : x[1] < y[1] \/ (x[1] = y[1] /\ x[2] <= y[2])
       IN <<name>> \o ReadDir(names \ {name})

\* make(map...) of NewStore over the data directory
EmptyStore(files) ==
  [heap |-> << >>, index |-> EmptyMap, categoryIndex |-> EmptyMap, tagIndex |-> EmptyMap,
   versionIndex |-> EmptyMap, totalSize |-> 0, memorySizes |-> EmptyMap, disk |-> files]

\* info.Size() of a record file
FileSize(memory) == EncodedSize(memory)

\* a load that does not check the seal of a file
LoadEntryWithoutSeal(s, name, cfg) ==
  LET fileData == s.disk[name]
      d == Decode(fileData, cfg.EnableCompression,
                  IF "sealed" \in DOMAIN fileData THEN [cfg EXCEPT !.key = fileData.key] ELSE cfg)
      memory == d.memory
      p == Len(s.heap) + 1
      baseID == IF HasVersionSuffix(memory.ID) THEN StripVersion(memory.ID) ELSE memory.ID
      s1 == [s EXCEPT !.heap = Append(@, memory),
                      !.index = Put(@, memory.ID, p),
                      !.memorySizes = Put(@, memory.ID, FileSize(memory)),
                      !.totalSize = @ + FileSize(memory)]
      s2 == updateIndices(s1, memory)
      s3 == IF memory.IsCurrentVersion THEN [s2 EXCEPT !.index = Put(@, baseID, p)] ELSE s2
      s4 == IF memory.Version > 0
            THEN [s3 EXCEPT !.versionIndex = Put(@, baseID, Append(ListOf(@, baseID), memory.ID))]
            ELSE s3
  IN IF d.ok THEN s4 ELSE s
\* one round of the loop of loadIndex over the directory entries; the file
\* names end in ".json.gz" exactly when cfg.EnableCompression is set
LoadEntry(s, name, cfg) ==
  LET d == Decode(s.disk[name], cfg.EnableCompression, cfg)
      memory == d.memory
      p == Len(s.heap) + 1
      baseID == IF HasVersionSuffix(memory.ID) THEN StripVersion(memory.ID) ELSE memory.ID
      s1 == [s EXCEPT !.heap = Append(@, memory),
                      !.index = Put(@, memory.ID, p),
                      !.memorySizes = Put(@, memory.ID, FileSize(memory)),
                      !.totalSize = @ + FileSize(memory)]
      s2 == updateIndices(s1, memory)
      s3 == IF memory.IsCurrentVersion THEN [s2 EXCEPT !.index = Put(@, baseID, p)] ELSE s2
      s4 == IF memory.Version > 0
            THEN [s3 EXCEPT !.versionIndex = Put(@, baseID, Append(ListOf(@, baseID), memory.ID))]
            ELSE s3
  IN IF d.ok THEN s4 ELSE s

RECURSIVE LoadLoop(_, _, _, _)
LoadLoop(s, entries, i, cfg) ==
  IF i > Len(entries) THEN s ELSE LoadLoop(LoadEntry(s, entries[i], cfg), entries, i + 1, cfg)

\* sort.Slice of one version list by Version; the versions of the ids of one
\* base differ, so the order is determined
SortVersions(s, versionIDs) ==
  LET ord == CHOOSE o \in SortedOrders(DOMAIN versionIDs,
                                       [i \in DOMAIN versionIDs |-> s.heap[s.index[versionIDs[i]]].Version]) : TRUE
  IN [i \in 1..Len(versionIDs) |-> versionIDs[ord[i]]]

loadIndex(files, cfg) ==
  LET s == LoadLoop(EmptyStore(files), ReadDir(DOMAIN files), 1, cfg)
  IN [s EXCEPT !.versionIndex = [baseID \in DOMAIN @ |-> SortVersions(s, @[baseID])]]

\* ------------------------------------------------ a store that is restarted
\* the bound of the clock for the runs that close and reopen the store
MaxLoadTime == 2
\* the keys a key file can hold
Keys == { 1, 2 }
\* cfg.MaxFileSize of these runs: the record "ok" with a summary and a tag
\* encodes to exactly this size
LoadFileSize == (MaxStorageSize \div 2) - 1
Configs ==
  { [EnableCompression |-> c, EnableEncryption |-> e, key |-> IF e THEN 1 ELSE 0,
     MaxFileSize |-> LoadFileSize]
    : c \in BOOLEAN, e \in BOOLEAN }
\* what the callers store: the documents of the queries, "ok" alone and "api"
LoadDocs ==
  QueryDocs \cup { [content |-> ContentList[4], summary |-> << >>, category |-> "", tags |-> << >>],
                   [content |-> ContentList[5], summary |-> << >>, category |-> "", tags |-> << >>] }

\* NewStore with EnableAsync = false on an empty data directory, with any codec
InitLoad ==
  /\ mu = NoLock
  /\ callers = << >>
  /\ config \in Configs
  /\ enableAsync = FALSE
  /\ workers = << >>
  /\ view = EmptyMap
  /\ heap = << >>
  /\ index = EmptyMap
  /\ categoryIndex = EmptyMap
  /\ tagIndex = EmptyMap
  /\ versionIndex = EmptyMap
  /\ totalSize = 0
  /\ memorySizes = EmptyMap
  /\ disk = EmptyMap
  /\ now = MaxTime - MaxLoadTime
  /\ last = NoCall
  /\ saveQueue = << >>
  /\ queueClosed = FALSE
  /\ shutdownCh = FALSE
  /\ routines = << >>
  /\ closer = "open"
  /\ closeMark = 0

\* Close with EnableAsync = false: returns nil; the process then stops
CloseSync ==
  /\ ~enableAsync
  /\ closer = "open"
  /\ closer' = "done"
  /\ last' = [NoCall EXCEPT !.op = "Close"]
  /\ UNCHANGED <<view, mu, callers, config, enableAsync, storeVars, now, saveQueue, queueClosed, shutdownCh,
                 routines, workers, closeMark>>

\* while no process runs, a record file loses its tail
TruncateFile(name) ==
  /\ closer = "done"
  /\ name \in DOMAIN disk
  /\ disk' = Put(disk, name, Truncated)
  /\ UNCHANGED <<view, mu, callers, config, enableAsync, heap, index, categoryIndex, tagIndex, versionIndex,
                 totalSize, memorySizes, now, last, asyncVars>>

\* NewStore of the next process on the same directory; key is what the key
\* file holds by then.  last.before keeps the records the process before had
\* in its index.
NewStoreSync(key) ==
  /\ ~enableAsync
  /\ closer = "done"
  /\ LET cfg == [config EXCEPT !.key = IF config.EnableEncryption THEN key ELSE 0]
         s == loadIndex(disk, cfg)
     IN /\ config' = cfg
        /\ Assign(s)
        /\ last' = [NoCall EXCEPT !.op = "NewStore",
                                  !.before = [id \in DOMAIN index |-> heap[index[id]]]]
  /\ closer' = "open"
  /\ UNCHANGED <<view, mu, callers, enableAsync, now, saveQueue, queueClosed, shutdownCh, routines, workers, closeMark>>

GetStatsSync ==
  /\ ~enableAsync
  /\ last' = [NoCall EXCEPT !.op = "GetStats", !.stats = GetStats(StoreState)]
  /\ UNCHANGED <<view, mu, callers, config, enableAsync, storeVars, now, asyncVars>>

NextLoad ==
  \/ closer = "open" /\ \E d \in LoadDocs : StoreSync(d.content, d.summary, d.category, d.tags)
  \/ closer = "open" /\ \E id \in RequestIDs : GetSync(id)
  \/ closer = "open" /\ \E id \in RequestIDs : DeleteSync(id)
  \/ closer = "open" /\ GetStatsSync
  \/ CloseSync
  \/ \E name \in DOMAIN disk : TruncateFile(name)
  \/ \E key \in Keys : NewStoreSync(key)

SpecLoad == InitLoad /\ [][NextLoad]_vars

\* ------------------------------------------------------ the read-only store
\* the bound of the clock for the runs with a reporting process
MaxViewTime == 3
\* the days of GetTimeline
TimelineDays == 30

\* one round of the loop of ReadOnlyStore.loadIndex: names that end in
\* neither ".json" nor ".json.gz" are passed over, and so is a file that a
\* layer of the codec rejects; the record is indexed under its own id
ViewLoadEntry(idx, files, name, cfg) ==
  LET d == Decode(files[name], cfg.EnableCompression, cfg)
  IN IF ~IsTempName(name) /\ d.ok THEN Put(idx, d.memory.ID, d.memory) ELSE idx

RECURSIVE ViewLoadLoop(_, _, _, _, _)
ViewLoadLoop(idx, files, entries, i, cfg) ==
  IF i > Len(entries) THEN idx
  ELSE ViewLoadLoop(ViewLoadEntry(idx, files, entries[i], cfg), files, entries, i + 1, cfg)

\* ReadOnlyStore.loadIndex into the index idx
ViewLoadIndex(idx, files, cfg) == ViewLoadLoop(idx, files, ReadDir(DOMAIN files), 1, cfg)

\* NewReadOnlyStoreWithConfig on the empty data directory of a store that
\* NewStore opened with the same configuration
InitView ==
  /\ mu = NoLock
  /\ callers = << >>
  /\ config \in Configs
  /\ enableAsync = FALSE
  /\ workers = << >>
  /\ view = ViewLoadIndex(EmptyMap, EmptyMap, PlainConfig)
  /\ heap = << >>
  /\ index = EmptyMap
  /\ categoryIndex = EmptyMap
  /\ tagIndex = EmptyMap
  /\ versionIndex = EmptyMap
  /\ totalSize = 0
  /\ memorySizes = EmptyMap
  /\ disk = EmptyMap
  /\ now = MaxTime - MaxViewTime
  /\ last = NoCall
  /\ saveQueue = << >>
  /\ queueClosed = FALSE
  /\ shutdownCh = FALSE
  /\ routines = << >>
  /\ closer = "open"
  /\ closeMark = 0

\* a Refresh that reloads into the index it has
RefreshWithoutClear ==
  /\ view' = ViewLoadIndex(view, disk, config)
  /\ last' = [NoCall EXCEPT !.op = "Refresh"]
  /\ UNCHANGED <<mu, callers, config, enableAsync, storeVars, now, asyncVars>>

\* ReadOnlyStore.Refresh: a new map, then loadIndex (which returns nil when
\* the directory can be read or is absent)
Refresh ==
  /\ view' = ViewLoadIndex(EmptyMap, disk, config)
  /\ last' = [NoCall EXCEPT !.op = "Refresh"]
  /\ UNCHANGED <<mu, callers, config, enableAsync, storeVars, now, asyncVars>>

RECURSIVE ViewCategories(_, _)
ViewCategories(keys, categories) ==
  IF keys = {} THEN categories
  ELSE LET k == CHOOSE x \in keys : TRUE
           category == view[k].Category
       IN ViewCategories(keys \ {k},
                         IF category = "" THEN categories
                         ELSE Put(categories, category, SizeOf(categories, category) + 1))
RECURSIVE ViewAccess(_)
ViewAccess(keys) ==
  IF keys = {} THEN 0
  ELSE LET k == CHOOSE x \in keys : TRUE IN view[k].AccessCount + ViewAccess(keys \ {k})

\* ReadOnlyStore.GetStats (the data directory, the sum of the file sizes and
\* the percentage left out)
ViewGetStats ==
  /\ last' = [NoCall EXCEPT !.op = "ViewGetStats",
                            !.stats = [total_memories |-> Cardinality(DOMAIN view),
                                       categories |-> ViewCategories(DOMAIN view, EmptyMap),
                                       total_access_count |-> ViewAccess(DOMAIN view)]]
  /\ UNCHANGED <<view, mu, callers, config, enableAsync, storeVars, now, asyncVars>>

\* ReadOnlyStore.List: the records that pass the filters, sorted by
\* sort.Slice on CreatedAt (descending, ties in any order), cut at limit
ViewList(category, tags, limit) ==
  /\ LET keys == { k \in DOMAIN view :
                    /\ category # "" => view[k].Category = category
                    /\ Len(tags) > 0 => hasAnyTag(view[k].Tags, tags) }
     IN \E ord \in SortedOrders(keys, [k \in keys |-> 0 - view[k].CreatedAt]) :
          last' = [NoCall EXCEPT !.op = "ViewList",
                                 !.result = IF limit > 0 /\ Len(ord) > limit
                                            THEN SubSeq(ord, 1, limit) ELSE ord]
  /\ UNCHANGED <<view, mu, callers, config, enableAsync, storeVars, now, asyncVars>>

\* Format("2006-01-02"): the day of a reading of the clock, two readings a day
DayOf(t) == t \div 2

\* ReadOnlyStore.GetTimeline: the records created on each of the last
\* TimelineDays days, the oldest day first
ViewGetTimeline ==
  /\ last' = [NoCall EXCEPT
                !.op = "ViewGetTimeline",
                !.result = [i \in 1..TimelineDays |->
                             Cardinality({ k \in DOMAIN view :
                                           DayOf(view[k].CreatedAt) = DayOf(now) - (TimelineDays - i) })]]
  /\ UNCHANGED <<view, mu, callers, config, enableAsync, storeVars, now, asyncVars>>

NextView ==
  \/ closer = "open" /\ \E d \in QueryDocs : StoreSync(d.content, d.summary, d.category, d.tags)
  \/ closer = "open" /\ \E id \in RequestIDs : DeleteSync(id)
  \/ CloseSync
  \/ \E name \in DOMAIN disk : TruncateFile(name)
  \/ Refresh
  \/ ViewGetStats
  \/ \E f \in ListFilters : ViewList(f.category, f.tags, f.limit)
  \/ ViewGetTimeline

SpecView == InitView /\ [][NextView]_vars

\* ------------------------------------------------- Close in both modes
MaxCloseTime == 1

\* NewStore on an empty data directory, in either mode, with room for
\* MaxCloseTime calls of Store
InitClose ==
  /\ mu = NoLock
  /\ callers = << >>
  /\ config = PlainConfig
  /\ enableAsync \in BOOLEAN
  /\ view = EmptyMap
  /\ heap = << >>
  /\ index = EmptyMap
  /\ categoryIndex = EmptyMap
  /\ tagIndex = EmptyMap
  /\ versionIndex = EmptyMap
  /\ totalSize = 0
  /\ memorySizes = EmptyMap
  /\ disk = EmptyMap
  /\ now = (IF enableAsync THEN MaxAsyncTime ELSE MaxTime) - MaxCloseTime
  /\ last = NoCall
  /\ saveQueue = << >>
  /\ queueClosed = FALSE
  /\ shutdownCh = FALSE
  /\ routines = << >>
  /\ workers = IF enableAsync THEN [w \in 1..WorkerThreads |-> Thread("idle", 0)] ELSE << >>
  /\ closer = "open"
  /\ closeMark = 0

\* one step of saveWorker w
WorkerStep(w) == w \in DOMAIN workers /\ (WorkerReceive(w) \/ WorkerExit(w) \/ WorkerSave(w))

NextClose ==
  \/ \E content \in AsyncContents, summary \in Summaries, category \in AsyncCategories, tags \in TagLists :
       StoreAsync(content, summary, category, tags)
  \/ \E content \in AsyncContents, summary \in Summaries, category \in AsyncCategories, tags \in TagLists :
       closer = "open" /\ StoreSync(content, summary, category, tags)
  \/ \E k \in DOMAIN routines : RoutineSend(k)
  \/ \E k \in DOMAIN routines : RoutineSave(k)
  \/ \E w \in DOMAIN workers : WorkerStep(w)
  \/ CloseSignal
  \/ CloseQueue
  \/ CloseReturn
  \/ CloseTimeout
  \/ CloseSync

\* the scheduler runs every goroutine that can take a step: each saveWorker,
\* the sleep of Close (100 ms) and its wait (at most 30 s) come to an end
SpecClose ==
  /\ InitClose
  /\ [][NextClose]_vars
  /\ \A w \in 1..WorkerThreads : WF_vars(WorkerStep(w))
  /\ WF_vars(CloseQueue)
  /\ WF_vars(CloseReturn \/ CloseTimeout)

\* ------------------------------------------- the calls, lock by lock
\* the bound of the clock and the number of calling threads for the runs that
\* follow the calls through s.mu
MaxLockTime == 2
MaxCallers == 2
\* what the callers store: "go", and a record that fills the storage with it
LockDocs ==
  { [content |-> ContentList[1], summary |-> << >>, category |-> "x", tags |-> << >>],
    [content |-> ContentList[2], summary |-> << >>, category |-> "x", tags |-> << >>] }
\* a thread that is in no call.  In a call: the call and where the thread is
\* in it, the arguments, the record of Store with its file size and the result
\* of its size check, and the entries of cleanupOldMemories.
NoCaller ==
  [op |-> "", pc |-> "idle", id |-> NoID, doc |-> << >>, t |-> 0, p |-> 0, size |-> 0,
   cleanup |-> FALSE, seen |-> EmptyMap, memories |-> << >>, i |-> 0,
   existing |-> 0, version |-> 0, previousVersionID |-> NoID]

\* NewStore with EnableAsync = false on an empty data directory; threads call
InitLock ==
  /\ mu = NoLock
  /\ callers = [c \in 1..MaxCallers |-> NoCaller]
  /\ config = PlainConfig
  /\ enableAsync = FALSE
  /\ workers = << >>
  /\ view = EmptyMap
  /\ heap = << >>
  /\ index = EmptyMap
  /\ categoryIndex = EmptyMap
  /\ tagIndex = EmptyMap
  /\ versionIndex = EmptyMap
  /\ totalSize = 0
  /\ memorySizes = EmptyMap
  /\ disk = EmptyMap
  /\ now = MaxTime - MaxLockTime
  /\ last = NoCall
  /\ saveQueue = << >>
  /\ queueClosed = FALSE
  /\ shutdownCh = FALSE
  /\ routines = << >>
  /\ closer = "open"
  /\ closeMark = 0

\* Store is called: generateID and time.Now(), before s.mu.Lock()
CallStore(c, d) ==
  /\ callers[c].pc = "idle"
  /\ now < MaxTime
  /\ callers' = [callers EXCEPT ![c] = [NoCaller EXCEPT !.op = "Store", !.pc = "lock", !.doc = d,
                                                        !.t = now + 1]]
  /\ now' = now + 1
  /\ UNCHANGED <<view, mu, config, enableAsync, storeVars, last, asyncVars>>

CallGet(c, id) ==
  /\ callers[c].pc = "idle"
  /\ now < MaxTime
  /\ callers' = [callers EXCEPT ![c] = [NoCaller EXCEPT !.op = "Get", !.pc = "lock", !.id = id]]
  /\ UNCHANGED <<view, mu, config, enableAsync, storeVars, now, last, asyncVars>>

CallDelete(c, id) ==
  /\ callers[c].pc = "idle"
  /\ callers' = [callers EXCEPT ![c] = [NoCaller EXCEPT !.op = "Delete", !.pc = "lock", !.id = id]]
  /\ UNCHANGED <<view, mu, config, enableAsync, storeVars, now, last, asyncVars>>

CallGetStats(c) ==
  /\ callers[c].pc = "idle"
  /\ callers' = [callers EXCEPT ![c] = [NoCaller EXCEPT !.op = "GetStats", !.pc = "rlock"]]
  /\ UNCHANGED <<view, mu, config, enableAsync, storeVars, now, last, asyncVars>>

\* a Lock that does not wait for the holder of the lock
AcquireWithoutExclusion(c) ==
  /\ callers[c].pc \in {"lock", "lock2", "lock3"}
  /\ mu' = [mu EXCEPT !.writer = c]
  /\ callers' = [callers EXCEPT ![c].pc = CASE @ = "lock" -> "body"
                                            [] @ = "lock2" -> "account"
                                            [] @ = "lock3" -> "delete"]
  /\ UNCHANGED <<view, config, enableAsync, storeVars, now, last, asyncVars>>

\* s.mu.Lock() of Store (twice), Get, Delete and of the Delete of retention
Acquire(c) ==
  /\ callers[c].pc \in {"lock", "lock2", "lock3"}
  /\ mu = NoLock
  /\ mu' = [mu EXCEPT !.writer = c]
  /\ callers' = [callers EXCEPT ![c].pc = CASE @ = "lock" -> "body"
                                            [] @ = "lock2" -> "account"
                                            [] @ = "lock3" -> "delete"]
  /\ UNCHANGED <<view, config, enableAsync, storeVars, now, last, asyncVars>>

\* s.mu.Unlock(), also the deferred one
Release(c) ==
  /\ callers[c].pc \in {"unlock", "unlock1", "unlock2", "unlock3"}
  /\ mu' = NoLock
  /\ callers' = [callers EXCEPT ![c] =
                   CASE @.pc = "unlock" -> NoCaller
                     [] @.pc = "unlock1" -> [@ EXCEPT !.pc = "save"]
                     [] @.pc = "unlock2" -> IF @.cleanup THEN [@ EXCEPT !.pc = "range"] ELSE NoCaller
                     [] @.pc = "unlock3" -> [@ EXCEPT !.pc = "loop"]]
  /\ UNCHANGED <<view, config, enableAsync, storeVars, now, last, asyncVars>>

\* s.mu.RLock() and s.mu.RUnlock() of GetStats
AcquireShared(c) ==
  /\ callers[c].pc = "rlock"
  /\ mu.writer = 0
  /\ mu' = [mu EXCEPT !.readers = @ \cup {c}]
  /\ callers' = [callers EXCEPT ![c].pc = "read"]
  /\ UNCHANGED <<view, config, enableAsync, storeVars, now, last, asyncVars>>

StatsRead(c) ==
  /\ callers[c].pc = "read"
  /\ last' = [NoCall EXCEPT !.op = "GetStats", !.stats = GetStats(StoreState)]
  /\ callers' = [callers EXCEPT ![c].pc = "runlock"]
  /\ UNCHANGED <<view, mu, config, enableAsync, storeVars, now, asyncVars>>

ReleaseShared(c) ==
  /\ callers[c].pc = "runlock"
  /\ mu' = [mu EXCEPT !.readers = @ \ {c}]
  /\ callers' = [callers EXCEPT ![c] = NoCaller]
  /\ UNCHANGED <<view, config, enableAsync, storeVars, now, last, asyncVars>>

\* Get between Lock and the deferred Unlock: the statistics and the save
GetBody(c) ==
  /\ callers[c].op = "Get" /\ callers[c].pc = "body"
  /\ LET r == Get(StoreState, callers[c].id, now + 1)
     IN /\ Assign(r.s)
        /\ now' = IF r.err = "" THEN now + 1 ELSE now
  /\ callers' = [callers EXCEPT ![c].pc = "unlock"]
  /\ UNCHANGED <<view, mu, config, enableAsync, last, asyncVars>>

\* Delete between Lock and the deferred Unlock: os.Remove and the indices
DeleteBody(c) ==
  /\ callers[c].op = "Delete" /\ callers[c].pc = "body"
  /\ Assign(Delete(StoreState, callers[c].id).s)
  /\ callers' = [callers EXCEPT ![c].pc = "unlock"]
  /\ UNCHANGED <<view, mu, config, enableAsync, now, last, asyncVars>>

\* Store between Lock (store.go:140) and Unlock (store.go:208), the save of
\* the superseded record included
StoreBody(c) ==
  /\ callers[c].op = "Store" /\ callers[c].pc = "body"
  /\ LET d == callers[c].doc
         l == StoreLocked(StoreState, d.content, d.summary, d.category, d.tags, callers[c].t)
     IN /\ Assign(IF l.found THEN saveMemoryToFile(l.s, l.existing) ELSE l.s)
        /\ callers' = [callers EXCEPT ![c].pc = "unlock1", ![c].p = l.p]
  /\ UNCHANGED <<view, mu, config, enableAsync, now, last, asyncVars>>

\* Store: the synchronous save (store.go:234-237); an error returns
StoreSave(c) ==
  /\ callers[c].pc = "save"
  /\ LET p == callers[c].p
     IN IF FitsFile(heap[p])
        THEN /\ Assign(saveMemoryToFile(StoreState, p))
             /\ callers' = [callers EXCEPT ![c].pc = "lock2", ![c].size = EncodedSize(heap[p])]
        ELSE /\ callers' = [callers EXCEPT ![c] = NoCaller]
             /\ UNCHANGED storeVars
  /\ UNCHANGED <<view, mu, config, enableAsync, now, last, asyncVars>>

\* Store: the storage tracking (store.go:240-245)
StoreAccount(c) ==
  /\ callers[c].pc = "account"
  /\ LET s == Account(StoreState, heap[callers[c].p].ID, callers[c].size)
     IN /\ Assign(s)
        /\ callers' = [callers EXCEPT ![c].pc = "unlock2",
                                      ![c].cleanup = s.totalSize > MaxStorageSize]
  /\ UNCHANGED <<view, mu, config, enableAsync, now, last, asyncVars>>

\* cleanupOldMemories: the loop over s.index begins (store.go:1039)
CleanupBegin(c) ==
  /\ callers[c].pc = "range"
  /\ callers' = [callers EXCEPT ![c].pc = "ranging",
                                ![c].seen = [k \in DOMAIN index |-> heap[index[k]].LastAccess]]
  /\ UNCHANGED <<view, mu, config, enableAsync, storeVars, now, last, asyncVars>>

\* cleanupOldMemories: the loop ends and the entries are sorted; the entries
\* are those of the index when the loop began or those of the index by now
CleanupSort(c) ==
  /\ callers[c].pc = "ranging"
  /\ \E la \in {callers[c].seen, [k \in DOMAIN index |-> heap[index[k]].LastAccess]} :
       \E ord \in SortedOrders(DOMAIN la, la) :
          callers' = [callers EXCEPT ![c].pc = "loop", ![c].seen = EmptyMap,
                                     ![c].memories = ord, ![c].i = 1]
  /\ UNCHANGED <<view, mu, config, enableAsync, storeVars, now, last, asyncVars>>

\* cleanupOldMemories: the test of s.totalSize at the head of the loop
CleanupCheck(c) ==
  /\ callers[c].pc = "loop"
  /\ callers' = [callers EXCEPT ![c] =
                   IF @.i > Len(@.memories) \/ totalSize <= targetSize
                   THEN NoCaller ELSE [@ EXCEPT !.pc = "lock3"]]
  /\ UNCHANGED <<view, mu, config, enableAsync, storeVars, now, last, asyncVars>>

\* cleanupOldMemories: s.Delete(mem.id) between its Lock and Unlock
CleanupDelete(c) ==
  /\ callers[c].pc = "delete"
  /\ Assign(Delete(StoreState, callers[c].memories[callers[c].i]).s)
  /\ callers' = [callers EXCEPT ![c].pc = "unlock3", ![c].i = @ + 1]
  /\ UNCHANGED <<view, mu, config, enableAsync, now, last, asyncVars>>

NextLock ==
  \/ \E c \in DOMAIN callers, d \in LockDocs : CallStore(c, d)
  \/ \E c \in DOMAIN callers, id \in RequestIDs : CallGet(c, id)
  \/ \E c \in DOMAIN callers, id \in RequestIDs : CallDelete(c, id)
  \/ \E c \in DOMAIN callers : CallGetStats(c)
  \/ \E c \in DOMAIN callers : Acquire(c)
  \/ \E c \in DOMAIN callers : Release(c)
  \/ \E c \in DOMAIN callers : AcquireShared(c)
  \/ \E c \in DOMAIN callers : StatsRead(c)
  \/ \E c \in DOMAIN callers : ReleaseShared(c)
  \/ \E c \in DOMAIN callers : GetBody(c)
  \/ \E c \in DOMAIN callers : DeleteBody(c)
  \/ \E c \in DOMAIN callers : StoreBody(c)
  \/ \E c \in DOMAIN callers : StoreSave(c)
  \/ \E c \in DOMAIN callers : StoreAccount(c)
  \/ \E c \in DOMAIN callers : CleanupBegin(c)
  \/ \E c \in DOMAIN callers : CleanupSort(c)
  \/ \E c \in DOMAIN callers : CleanupCheck(c)
  \/ \E c \in DOMAIN callers : CleanupDelete(c)

SpecLock == InitLock /\ [][NextLock]_vars

\* ----------------------------- Store against Store, statement by statement
\* the number of Store calls of the runs in which the threads store the same
\* content
MaxRaceTime == 2
\* what the threads store: "go", every time, with a summary that makes two
\* versions of it exceed the storage
RaceDocs ==
  { [content |-> ContentList[1], summary |-> Fill(MaxStorageSize - 15), category |-> "x",
     tags |-> << >>] }

InitRace ==
  /\ mu = NoLock
  /\ callers = [c \in 1..MaxCallers |-> NoCaller]
  /\ config = PlainConfig
  /\ enableAsync = FALSE
  /\ workers = << >>
  /\ view = EmptyMap
  /\ heap = << >>
  /\ index = EmptyMap
  /\ categoryIndex = EmptyMap
  /\ tagIndex = EmptyMap
  /\ versionIndex = EmptyMap
  /\ totalSize = 0
  /\ memorySizes = EmptyMap
  /\ disk = EmptyMap
  /\ now = MaxTime - MaxRaceTime
  /\ last = NoCall
  /\ saveQueue = << >>
  /\ queueClosed = FALSE
  /\ shutdownCh = FALSE
  /\ routines = << >>
  /\ closer = "open"
  /\ closeMark = 0

\* Store, store.go:146-171: the look-up of the base alias; the current
\* version found there is marked as not current and saved, and its id and
\* version go to the locals previousVersionID and version
StoreFind(c) ==
  /\ callers[c].op = "Store" /\ callers[c].pc = "body"
  /\ LET s == StoreState
         baseID == generateID(callers[c].doc.content)
         found == HasExisting(s, baseID)
         existing == s.index[baseID]
     IN IF found
        THEN /\ Assign(saveMemoryToFile([s EXCEPT !.heap[existing].IsCurrentVersion = FALSE], existing))
             /\ callers' = [callers EXCEPT ![c].pc = "insert", ![c].existing = existing,
                                           ![c].version = s.heap[existing].Version + 1,
                                           ![c].previousVersionID = s.heap[existing].ID]
        ELSE /\ UNCHANGED storeVars
             /\ callers' = [callers EXCEPT ![c].pc = "insert", ![c].version = 1]
  /\ UNCHANGED <<view, mu, config, enableAsync, now, last, asyncVars>>

\* Store, store.go:174-207: the new record and its entries in the indices
StoreInsert(c) ==
  /\ callers[c].pc = "insert"
  /\ LET s == StoreState
         d == callers[c].doc
         baseID == generateID(d.content)
         memory == NewMemory(baseID, d.content, d.summary, d.category, d.tags,
                             callers[c].version, callers[c].previousVersionID, callers[c].t)
         p == Len(s.heap) + 1
         s1 == [s EXCEPT !.heap = Append(@, memory),
                         !.index = Put(Put(@, memory.ID, p), baseID, p),
                         !.versionIndex = Put(@, baseID, Append(ListOf(@, baseID), memory.ID))]
     IN /\ Assign(updateIndices(s1, memory))
        /\ callers' = [callers EXCEPT ![c].pc = "unlock1", ![c].p = p]
  /\ UNCHANGED <<view, mu, config, enableAsync, now, last, asyncVars>>

NextRace ==
  \/ \E c \in DOMAIN callers, d \in RaceDocs : CallStore(c, d)
  \/ \E c \in DOMAIN callers : Acquire(c)
  \/ \E c \in DOMAIN callers : Release(c)
  \/ \E c \in DOMAIN callers : StoreFind(c)
  \/ \E c \in DOMAIN callers : StoreInsert(c)
  \/ \E c \in DOMAIN callers : StoreSave(c)
  \/ \E c \in DOMAIN callers : StoreAccount(c)
  \/ \E c \in DOMAIN callers : CleanupBegin(c)
  \/ \E c \in DOMAIN callers : CleanupSort(c)
  \/ \E c \in DOMAIN callers : CleanupCheck(c)
  \/ \E c \in DOMAIN callers : CleanupDelete(c)

SpecRace == InitRace /\ [][NextRace]_vars

\* ------------------------------ asynchronous mode, lock by lock: who waits
\* the calls of the runs that follow every thread of the asynchronous store
\* through s.mu and the save queue; the clock ticks with every call
MaxWaitTime == 1
\* the threads: the callers of the API (a thread for every call), the
\* saveWorker goroutines and the goroutines that Store starts; a saveWorker
\* that is "idle" is in its select
\* the store has one saveWorker, and a Store starts two goroutines at most
WaitWorkers == 1
StoreRoutines == 2
APIThreads == 1..MaxWaitTime
SaveWorkers == (MaxWaitTime + 1)..(MaxWaitTime + WaitWorkers)
Goroutines == (MaxWaitTime + WaitWorkers + 1)..(MaxWaitTime + WaitWorkers + StoreRoutines)
Threads == 1..(MaxWaitTime + WaitWorkers + StoreRoutines)
WaitOptions == { [NoOptions EXCEPT !.Category = "x", !.Confirm = TRUE] }
\* the data directory that NewStore finds: the file of one record of category
\* "x" that leaves no room for a second version of it
WaitFiles ==
  LET memory == NewMemory(generateID(ContentList[1]), ContentList[1], Fill(MaxStorageSize - 15), "x",
                          << >>, 1, NoID, MaxTime - MaxWaitTime)
  IN Put(EmptyMap, memory.ID, Encode(memory, PlainConfig))
\* the ids that Get and Delete are called with: the record of the directory
WaitIDs == DOMAIN WaitFiles
\* what the threads store: the content of that record again
WaitDocs == { [content |-> ContentList[1], summary |-> Fill(MaxStorageSize - 15), category |-> "x",
               tags |-> << >>] }

\* NewStore with EnableAsync = true on that data directory
InitWait ==
  /\ mu = NoLock
  /\ callers = [c \in Threads |-> NoCaller]
  /\ config = PlainConfig
  /\ enableAsync = TRUE
  /\ workers = << >>
  /\ view = EmptyMap
  /\ LET s == loadIndex(WaitFiles, PlainConfig)
     IN /\ heap = s.heap
        /\ index = s.index
        /\ categoryIndex = s.categoryIndex
        /\ tagIndex = s.tagIndex
        /\ versionIndex = s.versionIndex
        /\ totalSize = s.totalSize
        /\ memorySizes = s.memorySizes
        /\ disk = s.disk
  /\ now = MaxTime - MaxWaitTime
  /\ last = NoCall
  /\ saveQueue = << >>
  /\ queueClosed = FALSE
  /\ shutdownCh = FALSE
  /\ routines = << >>
  /\ closer = "open"
  /\ closeMark = 0

\* a goroutine that is not running, and the starting of one: go func(mem)
FreeGoroutines == { k \in Goroutines : callers[k] = NoCaller }
Go(threads, p) ==
  LET k == CHOOSE k \in Goroutines : threads[k] = NoCaller /\ \A j \in Goroutines : j < k => threads[j] # NoCaller
  IN [threads EXCEPT ![k] = [NoCaller EXCEPT !.op = "go", !.pc = "send", !.p = p]]

\* a thread, the first one that is in no call, calls Store, Get, Delete, List
\* or BulkDelete (with confirm and a filter).  A Store is called when the two
\* goroutines it may start can run.
Begin(c, op, id, doc) ==
  /\ callers[c].pc = "idle"
  /\ \A d \in APIThreads : d < c => callers[d].pc # "idle"
  /\ now < MaxTime
  /\ op = "Store" =>
       Cardinality(FreeGoroutines) >= StoreRoutines * (1 + Cardinality({d \in APIThreads : callers[d].op = "Store"}))
  /\ callers' = [callers EXCEPT ![c] = [NoCaller EXCEPT !.op = op, !.id = id, !.doc = doc, !.t = now + 1,
                                                        !.pc = IF op = "List" THEN "rlock" ELSE "lock"]]
  /\ now' = now + 1
  /\ UNCHANGED <<view, mu, config, enableAsync, storeVars, last, asyncVars>>

\* Store with EnableAsync = true between Lock (store.go:140) and Unlock
\* (store.go:208): the goroutine that saves the superseded record is started
StoreSection(c) ==
  LET d == callers[c].doc
      l == StoreLocked(StoreState, d.content, d.summary, d.category, d.tags, callers[c].t)
      started == IF l.found THEN Go(callers, l.existing) ELSE callers
  IN { [s |-> l.s, callers |-> [started EXCEPT ![c].pc = "unlock", ![c].p = l.p], now |-> now] }

\* Get and Delete between Lock and the deferred Unlock
GetSection(c) ==
  LET r == Get(StoreState, callers[c].id, now + 1)
  IN { [s |-> r.s, callers |-> [callers EXCEPT ![c].pc = "unlock"],
        now |-> IF r.err = "" THEN now + 1 ELSE now] }
DeleteSection(c) ==
  { [s |-> Delete(StoreState, callers[c].id).s, callers |-> [callers EXCEPT ![c].pc = "unlock"],
     now |-> now] }

\* BulkDelete between Lock (store.go:496) and Unlock (store.go:581): toDelete
BulkCollect(c) ==
  { [s |-> StoreState,
     callers |-> [callers EXCEPT ![c].pc = "unlock", ![c].seen = bases, ![c].i = 1,
                                 ![c].memories = toDelete(StoreState, bases, 1)],
     now |-> now]
    : bases \in MapOrders(baseIDsToDelete(StoreState, callers[c].doc)) }

\* saveMemoryAsync: the storage tracking (store.go:1278-1285)
AccountSection(c) ==
  LET s == Account(StoreState, heap[callers[c].p].ID, callers[c].size)
  IN { [s |-> s,
        callers |-> [callers EXCEPT ![c].pc = "unlock2", ![c].cleanup = s.totalSize > MaxStorageSize],
        now |-> now] }

\* cleanupOldMemories: s.Delete(mem.id) between its Lock and Unlock
CleanupSection(c) ==
  { [s |-> Delete(StoreState, callers[c].memories[callers[c].i]).s,
     callers |-> [callers EXCEPT ![c].pc = "unlock3", ![c].i = @ + 1], now |-> now] }

\* BulkDelete: delete(s.index, id) of a base alias (store.go:600-602)
BulkAlias(c) ==
  { [s |-> [StoreState EXCEPT !.index = Del(@, callers[c].memories[callers[c].i])],
     callers |-> [callers EXCEPT ![c].pc = "unlock4", ![c].i = @ + 1], now |-> now] }

\* BulkDelete: the indices of the deleted record (store.go:622-630)
BulkUpdate(c) ==
  LET id == callers[c].memories[callers[c].i]
      s == StoreState
      s1 == [s EXCEPT !.totalSize = @ - SizeOf(s.memorySizes, id), !.memorySizes = Del(@, id)]
      s2 == removeFromIndices(s1, s.heap[s.index[id]])
  IN { [s |-> IF id \in DOMAIN index THEN [s2 EXCEPT !.index = Del(@, id)] ELSE s,
        callers |-> [callers EXCEPT ![c].pc = "unlock4", ![c].i = @ + 1], now |-> now] }

\* BulkDelete: the version index of the deleted bases (store.go:634-638)
BulkDrop(c) ==
  { [s |-> DropVersions(StoreState, callers[c].seen, 1),
     callers |-> [callers EXCEPT ![c].pc = "unlock4", ![c].memories = << >>, ![c].i = 0],
     now |-> now] }

\* what a thread does with the write lock, by the Lock it stands at
Section(c) ==
  CASE callers[c].pc = "lock" /\ callers[c].op = "Store" -> StoreSection(c)
    [] callers[c].pc = "lock" /\ callers[c].op = "Get" -> GetSection(c)
    [] callers[c].pc = "lock" /\ callers[c].op = "Delete" -> DeleteSection(c)
    [] callers[c].pc = "lock" /\ callers[c].op = "BulkDelete" -> BulkCollect(c)
    [] callers[c].pc = "lock2" -> AccountSection(c)
    [] callers[c].pc = "lock3" -> CleanupSection(c)
    [] callers[c].pc = "lock4" -> BulkAlias(c)
    [] callers[c].pc = "lock5" -> BulkUpdate(c)
    [] callers[c].pc = "lock6" -> BulkDrop(c)
    [] OTHER -> { }

\* s.mu.Lock() returns and the thread runs the statements up to its Unlock
Lock(c) ==
  /\ mu = NoLock
  /\ \E o \in Section(c) :
       /\ Assign(o.s)
       /\ callers' = o.callers
       /\ now' = o.now
  /\ mu' = [mu EXCEPT !.writer = c]
  /\ UNCHANGED <<view, config, enableAsync, last, asyncVars>>

\* the position in BulkDelete after a round of its loop: the next id, or the
\* clean-up of the version index; after that BulkDelete returns
Round(th) ==
  IF th.i = 0 THEN NoCaller
  ELSE [th EXCEPT !.pc = IF th.i > Len(th.memories) THEN "lock6" ELSE "rlock"]

\* the head of the loop of cleanupOldMemories (store.go:1053-1056)
CleanupCheck2(th, s) ==
  IF th.i > Len(th.memories) \/ s.totalSize <= targetSize THEN NoCaller ELSE [th EXCEPT !.pc = "lock3"]

\* cleanupOldMemories up to its first Delete: the entries of s.index, sorted
CleanupStart(th, s) ==
  LET la == [k \in DOMAIN s.index |-> s.heap[s.index[k]].LastAccess]
  IN { CleanupCheck2([th EXCEPT !.memories = ord, !.i = 1], s) : ord \in SortedOrders(DOMAIN la, la) }

\* where the thread is after its Unlock: Store starts the goroutine of the new
\* record and returns, Get and Delete return, BulkDelete is in its loop,
\* saveMemoryAsync returns or is in cleanupOldMemories
Unlocked(c) ==
  LET th == callers[c]
  IN CASE th.pc = "unlock" /\ th.op = "Store" -> { [Go(callers, th.p) EXCEPT ![c] = NoCaller] }
       [] th.pc = "unlock" /\ th.op = "BulkDelete" -> { [callers EXCEPT ![c] = Round(th)] }
       [] th.pc = "unlock" -> { [callers EXCEPT ![c] = NoCaller] }
       [] th.pc = "unlock2" ->
            IF th.cleanup THEN { [callers EXCEPT ![c] = n] : n \in CleanupStart(th, StoreState) }
            ELSE { [callers EXCEPT ![c] = NoCaller] }
       [] th.pc = "unlock3" -> { [callers EXCEPT ![c] = CleanupCheck2(th, StoreState)] }
       [] th.pc = "unlock4" -> { [callers EXCEPT ![c] = Round(th)] }
       [] OTHER -> { }

\* an Unlock of saveMemoryAsync that comes only after cleanupOldMemories:
\* the retention is entered with the lock held
UnlockAfterCleanup(c) ==
  /\ \E n \in Unlocked(c) : callers' = n
  /\ mu' = IF callers[c].pc = "unlock2" /\ callers[c].cleanup THEN mu ELSE NoLock
  /\ UNCHANGED <<view, config, enableAsync, storeVars, now, last, asyncVars>>

\* s.mu.Unlock() and the statements up to the next Lock or the return
Unlock(c) ==
  /\ \E n \in Unlocked(c) : callers' = n
  /\ mu' = NoLock
  /\ UNCHANGED <<view, config, enableAsync, storeVars, now, last, asyncVars>>

\* s.mu.RLock() returns: List reads its results, BulkDelete reads
\* memory, exists := s.index[id] (store.go:589-591)
RLock(c) ==
  /\ callers[c].pc = "rlock"
  /\ mu.writer = 0
  /\ mu' = [mu EXCEPT !.readers = @ \cup {c}]
  /\ IF callers[c].op = "List"
     THEN /\ \E result \in List(StoreState, "", << >>, 0) :
               last' = [NoCall EXCEPT !.op = "List", !.result = result]
          /\ callers' = [callers EXCEPT ![c].pc = "runlock"]
     ELSE /\ LET id == callers[c].memories[callers[c].i]
             IN callers' = [callers EXCEPT ![c].pc = "runlock",
                                           ![c].p = IF id \in DOMAIN index THEN index[id] ELSE 0]
          /\ UNCHANGED last
  /\ UNCHANGED <<view, config, enableAsync, storeVars, now, asyncVars>>

\* s.mu.RUnlock(); in BulkDelete what was read decides how the round goes on
\* (store.go:593-603)
RUnlock(c) ==
  /\ callers[c].pc = "runlock"
  /\ mu' = [mu EXCEPT !.readers = @ \ {c}]
  /\ LET th == callers[c]
     IN callers' = [callers EXCEPT ![c] =
                      IF th.op = "List" THEN NoCaller
                      ELSE IF th.p = 0 THEN Round([th EXCEPT !.i = th.i + 1])
                      ELSE IF ~HasVersionSuffix(th.memories[th.i]) /\ heap[th.p].Version > 0
                           THEN [th EXCEPT !.pc = "lock4"]
                           ELSE [th EXCEPT !.pc = "remove"]]
  /\ UNCHANGED <<view, config, enableAsync, storeVars, now, last, asyncVars>>

\* BulkDelete: os.Stat and os.Remove of the file, outside the lock (store.go:614-619)
BulkRemove(c) ==
  /\ callers[c].pc = "remove"
  /\ disk' = Del(disk, callers[c].memories[callers[c].i])
  /\ callers' = [callers EXCEPT ![c].pc = "lock5"]
  /\ UNCHANGED <<view, mu, config, enableAsync, heap, index, categoryIndex, tagIndex, versionIndex, totalSize, memorySizes, now, last, asyncVars>>

\* the select of a goroutine of Store: the send, or saveMemoryAsync when the
\* queue is full or (after the recovered panic) closed
GoSend(k) ==
  /\ callers[k].pc = "send"
  /\ IF ~queueClosed /\ Len(saveQueue) < QueueSize
     THEN /\ saveQueue' = Append(saveQueue, callers[k].p)
          /\ callers' = [callers EXCEPT ![k] = NoCaller]
     ELSE /\ callers' = [callers EXCEPT ![k].pc = "save"]
          /\ UNCHANGED saveQueue
  /\ UNCHANGED <<view, mu, config, enableAsync, storeVars, now, last, queueClosed, shutdownCh, routines, workers, closer, closeMark>>

\* saveWorker: a receive from the queue, in the main select or in the drain loop
Receive(w) ==
  /\ callers[w].pc = "idle"
  /\ saveQueue # << >>
  /\ callers' = [callers EXCEPT ![w] = [NoCaller EXCEPT !.op = "saveWorker", !.pc = "save",
                                                        !.p = Head(saveQueue)]]
  /\ saveQueue' = Tail(saveQueue)
  /\ UNCHANGED <<view, mu, config, enableAsync, storeVars, now, last, queueClosed, shutdownCh, routines, workers, closer, closeMark>>

\* saveWorker returns: the queue is closed and empty, or the shutdown signal
\* was received and the drain loop finds the queue empty
WorkerReturn(w) ==
  /\ callers[w].pc = "idle"
  /\ saveQueue = << >>
  /\ shutdownCh \/ queueClosed
  /\ callers' = [callers EXCEPT ![w].pc = "exited"]
  /\ UNCHANGED <<view, mu, config, enableAsync, storeVars, now, last, asyncVars>>

\* Close returns nil: s.wg.Wait() returned before the 30 seconds
CloseDone ==
  /\ closer = "waiting"
  /\ \A w \in SaveWorkers : callers[w].pc = "exited"
  /\ closer' = "done"
  /\ UNCHANGED <<view, mu, callers, config, enableAsync, storeVars, now, last, saveQueue, queueClosed, shutdownCh, routines, workers, closeMark>>

\* Close returns the timeout error: a worker is still running after 30 seconds
CloseExpired ==
  /\ closer = "waiting"
  /\ \E w \in SaveWorkers : callers[w].pc # "exited"
  /\ closer' = "timeout"
  /\ UNCHANGED <<view, mu, callers, config, enableAsync, storeVars, now, last, saveQueue, queueClosed, shutdownCh, routines, workers, closeMark>>

\* the save of saveMemoryAsync (store.go:1271-1275) is that of the
\* synchronous Store
NextWait ==
  \/ \E c \in APIThreads, d \in WaitDocs : Begin(c, "Store", NoID, d)
  \/ \E c \in APIThreads, id \in WaitIDs : Begin(c, "Get", id, << >>)
  \/ \E c \in APIThreads, id \in WaitIDs : Begin(c, "Delete", id, << >>)
  \/ \E c \in APIThreads : Begin(c, "List", NoID, << >>)
  \/ \E c \in APIThreads, options \in WaitOptions : Begin(c, "BulkDelete", NoID, options)
  \/ \E c \in Threads : Lock(c)
  \/ \E c \in Threads : Unlock(c)
  \/ \E c \in Threads : RLock(c)
  \/ \E c \in Threads : RUnlock(c)
  \/ \E c \in Threads : StoreSave(c)
  \/ \E c \in Threads : BulkRemove(c)
  \/ \E k \in Goroutines : GoSend(k)
  \/ \E w \in SaveWorkers : Receive(w)
  \/ \E w \in SaveWorkers : WorkerReturn(w)
  \/ CloseSignal
  \/ CloseQueue
  \/ CloseDone
  \/ CloseExpired

SpecWait == InitWait /\ [][NextWait]_vars

\* ------------------------------- asynchronous mode: Delete and the queue
\* Delete with EnableAsync = true, called with a versioned id of the index
DeleteQueued(id) ==
  /\ enableAsync
  /\ HasVersionSuffix(id)
  /\ LET r == Delete(StoreState, id)
     IN /\ Assign(r.s)
        /\ last' = [NoCall EXCEPT !.op = "Delete", !.err = r.err, !.id = id]
  /\ UNCHANGED <<view, mu, callers, config, enableAsync, now, asyncVars>>

NextDrop ==
  \/ \E content \in AsyncContents, summary \in Summaries, category \in AsyncCategories, tags \in TagLists :
       StoreAsync(content, summary, category, tags)
  \/ \E id \in DOMAIN index : DeleteQueued(id)
  \/ \E k \in DOMAIN routines : RoutineSend(k)
  \/ \E k \in DOMAIN routines : RoutineSave(k)
  \/ \E w \in DOMAIN workers : WorkerReceive(w)
  \/ \E w \in DOMAIN workers : WorkerSave(w)

SpecDrop == InitAsync /\ [][NextDrop]_vars

\* ------------------------------------------ categories in any letter case
\* the bound of the clock for the runs that store and look up categories
MaxCaseTime == 3
\* the categories the callers use: the same word in lower and in upper case
CaseCategories == { "x", "X" }
\* what the callers store: "go", "ok" and "api", each in either category
CaseDocs ==
  { [content |-> ContentList[i], summary |-> << >>, category |-> c, tags |-> << >>]
    : i \in {1, 4, 5}, c \in CaseCategories }
\* the searches: a word that no record contains, in either category
CaseQueries == { [NoQuery EXCEPT !.Query = <<"q">>, !.Category = c] : c \in CaseCategories }

\* NewStore with EnableAsync = false on an empty data directory
InitCase ==
  /\ mu = NoLock
  /\ callers = << >>
  /\ config = PlainConfig
  /\ enableAsync = FALSE
  /\ workers = << >>
  /\ view = EmptyMap
  /\ heap = << >>
  /\ index = EmptyMap
  /\ categoryIndex = EmptyMap
  /\ tagIndex = EmptyMap
  /\ versionIndex = EmptyMap
  /\ totalSize = 0
  /\ memorySizes = EmptyMap
  /\ disk = EmptyMap
  /\ now = MaxTime - MaxCaseTime
  /\ last = NoCall
  /\ saveQueue = << >>
  /\ queueClosed = FALSE
  /\ shutdownCh = FALSE
  /\ routines = << >>
  /\ closer = "open"
  /\ closeMark = 0

NextCase ==
  \/ \E d \in CaseDocs : StoreSync(d.content, d.summary, d.category, d.tags)
  \/ \E query \in CaseQueries : SearchSync(query, now)
  \/ \E c \in CaseCategories : ListSync(c, << >>, 0)

SpecCase == InitCase /\ [][NextCase]_vars

\* -------------------------------------------------- pkg/keywords: Extract
\* the characters of the texts: letters, "@", "." and the blank; there are no
\* digits, "-" or "_" in them
LowerLetters == { "a", "e", "g", "i", "k", "o", "p", "q", "s", "t", "u", "w", "x", "z" }
UpperLetters == { "A", "G", "S", "T", "W", "X" }
IsLower(c) == c \in LowerLetters
IsUpper(c) == c \in UpperLetters
IsLetter(c) == IsLower(c) \/ IsUpper(c)
\* unicode.ToUpper on the letters an email address of the texts can hold
ToUpper(c) ==
  CASE c = "a" -> "A"
    [] c = "s" -> "S"
    [] c = "w" -> "W"
    [] OTHER -> c
\* \w of the patterns
IsWordChar(c) == IsLetter(c)
WordAt(text, i) == i \in 1..Len(text) /\ IsWordChar(text[i])
\* \b of the patterns, in front of position i
Boundary(text, i) == WordAt(text, i - 1) # WordAt(text, i)

\* tokenize: the maximal runs of letters, digits, "_", "-" and "."
TokenChar(c) == IsLetter(c) \/ c = "."
tokenize(text) ==
  LET n == Len(text)
      End(i) == CHOOSE j \in i..n :
                  /\ \A k \in i..j : TokenChar(text[k])
                  /\ j = n \/ ~TokenChar(text[j + 1])
      words[i \in 1..(n + 1)] ==
        IF i > n THEN << >>
        ELSE IF TokenChar(text[i]) THEN <<SubSeq(text, i, End(i))>> \o words[End(i) + 1]
        ELSE words[i + 1]
  IN words[1]

\* makeStopWords, the entries that the texts can spell
StopWords ==
  { <<"a">>, <<"i">>, <<"g", "o">>, <<"s", "o">>, <<"t", "o">>, <<"a", "t">>, <<"i", "t">>, <<"i", "s">>,
    <<"w", "a", "s">>, <<"g", "o", "t">>, <<"g", "e", "t">>, <<"u", "s", "e">>, <<"t", "o", "o">>,
    <<"i", "t", "s">>, <<"p", "u", "t">> }
isStopWord(word) == ToLowerText(word) \in StopWords
isMeaningfulConcept(word) ==
  Len(word) >= 4
  /\ \E i \in 1..Len(word) : word[i] \in {"a", "e", "i", "o", "u", "A", "E", "I", "O", "U"}

\* regexp FindAllString: the matches from left to right, none overlapping.
\* Match(text, i, j) says that the pattern matches text[i..j] as it stands in
\* text; of the matches that start at i the patterns here take the longest.
FindAllString(Match(_, _, _), text) ==
  LET n == Len(text)
      EndOf(i) == LET js == { j \in i..n : Match(text, i, j) }
                  IN IF js = {} THEN 0 ELSE CHOOSE j \in js : \A k \in js : k <= j
      found[i \in 1..(n + 1)] ==
        IF i > n THEN << >>
        ELSE IF EndOf(i) > 0 THEN <<SubSeq(text, i, EndOf(i))>> \o found[EndOf(i) + 1]
        ELSE found[i + 1]
  IN { found[1][k] : k \in 1..Len(found[1]) }

\* the technical patterns: the alternatives that the texts can spell, and
\* \b\w+\.(go|...)\b
TechnicalWords == { <<"a", "p", "i">>, <<"a", "w", "s">>, <<"g", "c", "p">> }
FileExtensions == { <<"g", "o">>, <<"t", "s">> }
TechnicalMatch(text, i, j) ==
  /\ Boundary(text, i) /\ Boundary(text, j + 1)
  /\ \/ SubSeq(text, i, j) \in TechnicalWords
     \/ \E d \in (i + 1)..(j - 1) :
          /\ text[d] = "."
          /\ \A k \in i..(d - 1) : IsWordChar(text[k])
          /\ SubSeq(text, d + 1, j) \in FileExtensions

extractTechnicalTerms(text) == FindAllString(TechnicalMatch, ToLowerText(text))

\* [A-Z][a-z]+
CapWord(w) == Len(w) >= 2 /\ IsUpper(w[1]) /\ \A k \in 2..Len(w) : IsLower(w[k])
\* \b[A-Z][a-z]+(?:[A-Z][a-z]+)+\b
CamelMatch(text, i, j) ==
  /\ Boundary(text, i) /\ Boundary(text, j + 1)
  /\ \A k \in i..j : IsLetter(text[k])
  /\ IsUpper(text[i])
  /\ \A k \in i..j : IsUpper(text[k]) => (k < j /\ IsLower(text[k + 1]))
  /\ Cardinality({ k \in i..j : IsUpper(text[k]) }) >= 2
\* \b[a-z]+(?:\.[a-z]+)+\b
DottedMatch(text, i, j) ==
  /\ Boundary(text, i) /\ Boundary(text, j + 1)
  /\ \A k \in i..j : IsLower(text[k]) \/ text[k] = "."
  /\ IsLower(text[i]) /\ IsLower(text[j])
  /\ \A k \in i..(j - 1) : ~(text[k] = "." /\ text[k + 1] = ".")
  /\ \E k \in i..j : text[k] = "."

\* isCommonWord, the entries that the texts can spell
isCommonWord(word) == ToLowerText(word) \in { <<"w", "h", "a", "t">>, <<"i", "n", "t", "o">> }
\* extractProjectNames (no text has the "-" or "_" of the first pattern)
extractProjectNames(text) ==
  { m \in FindAllString(CamelMatch, text) \cup FindAllString(DottedMatch, text) :
      ~isCommonWord(m) /\ Len(m) > 3 }

\* \b[A-Z][a-z]+\s+[A-Z][a-z]+(?:\s+[A-Z][a-z]+)?\b
FullNameMatch(text, i, j) ==
  /\ Boundary(text, i) /\ Boundary(text, j + 1)
  /\ \A k \in i..j : IsLetter(text[k]) \/ text[k] = " "
  /\ IsLetter(text[i]) /\ IsLetter(text[j])
  /\ LET starts == { k \in i..j : IsLetter(text[k]) /\ (k = i \/ text[k - 1] = " ") }
         EndOf(k) == CHOOSE e \in k..j : (\A x \in k..e : IsLetter(text[x]))
                                          /\ (e = j \/ text[e + 1] = " ")
     IN /\ Cardinality(starts) \in {2, 3}
        /\ \A k \in starts : CapWord(SubSeq(text, k, EndOf(k)))
\* [a-zA-Z]+(?:[._-][a-zA-Z]+)*
NameShape(w) ==
  /\ Len(w) >= 1
  /\ \A k \in 1..Len(w) : IsLetter(w[k]) \/ w[k] = "."
  /\ IsLetter(w[1]) /\ IsLetter(w[Len(w)])
  /\ \A k \in 1..(Len(w) - 1) : ~(w[k] = "." /\ w[k + 1] = ".")
\* [a-zA-Z0-9.-]+\.[a-zA-Z]{2,}
DomainShape(w) ==
  /\ \A k \in 1..Len(w) : IsLetter(w[k]) \/ w[k] = "."
  /\ \E d \in 2..(Len(w) - 2) : w[d] = "." /\ \A k \in (d + 1)..Len(w) : IsLetter(w[k])
\* \b([a-zA-Z]+(?:[._-][a-zA-Z]+)*)@[a-zA-Z0-9.-]+\.[a-zA-Z]{2,}\b
EmailMatch(text, i, j) ==
  /\ Boundary(text, i) /\ Boundary(text, j + 1)
  /\ \E a \in (i + 1)..(j - 1) :
       /\ text[a] = "@"
       /\ NameShape(SubSeq(text, i, a - 1))
       /\ DomainShape(SubSeq(text, a + 1, j))
\* @[a-zA-Z0-9][a-zA-Z0-9-]{0,38}, on texts shorter than that
HandleMatch(text, i, j) ==
  /\ text[i] = "@"
  /\ j > i
  /\ \A k \in (i + 1)..j : IsLetter(text[k])

\* the first submatch of an email address, "." replaced by " ", strings.Title
EmailName(match) ==
  LET a == CHOOSE k \in 1..Len(match) : match[k] = "@"
      name == [k \in 1..(a - 1) |-> IF match[k] = "." THEN " " ELSE match[k]]
  IN [k \in 1..Len(name) |-> IF k = 1 \/ name[k - 1] = " " THEN ToUpper(name[k]) ELSE name[k]]

extractPersonNames(text) ==
  FindAllString(FullNameMatch, text)
  \cup { EmailName(m) : m \in FindAllString(EmailMatch, text) }
  \cup FindAllString(HandleMatch, text)

\* the keywords that Extract leaves in keywordMap, under their keys.  The
\* scores are in units of 1/(10 * totalWords): 2.0, 1.8 and 1.5 times the
\* term frequency, or 0.5, 0.4 and 0.3 without one; a later type replaces an
\* entry only with a higher score.
keywordMap(text) ==
  LET words == tokenize(text)
      counted == { i \in 1..Len(words) : ~isStopWord(words[i]) /\ Len(words[i]) > 2 }
      totalWords == Cardinality(counted)
      unit == IF totalWords = 0 THEN 1 ELSE totalWords
      wordFreq(k) == Cardinality({ i \in counted : ToLowerText(words[i]) = k })
      Entry(term, boost, base, type) ==
        [key |-> ToLowerText(term), Term |-> term, Type |-> type,
         Score |-> IF wordFreq(ToLowerText(term)) > 0 THEN boost * wordFreq(ToLowerText(term))
                   ELSE base * unit]
      Merge(m, added) ==
        { e \in m : ~\E x \in added : x.key = e.key /\ e.Score < x.Score }
        \cup { x \in added : \A e \in m : e.key = x.key => e.Score < x.Score }
      technical == { Entry(term, 20, 5, "technical") : term \in extractTechnicalTerms(text) }
      project == { Entry(name, 18, 4, "project") : name \in extractProjectNames(text) }
      person == { Entry(name, 15, 3, "person") : name \in extractPersonNames(text) }
      named == Merge(Merge(technical, project), person)
      concept == { [key |-> ToLowerText(words[i]), Term |-> ToLowerText(words[i]), Type |-> "concept",
                    Score |-> 10 * wordFreq(ToLowerText(words[i]))]
                   : i \in { c \in counted :
                               /\ ~\E e \in named : e.key = ToLowerText(words[c])
                               /\ 100 * wordFreq(ToLowerText(words[c])) > totalWords
                               /\ isMeaningfulConcept(ToLowerText(words[c])) } }
  IN named \cup concept

\* Extract: one keyword per key of keywordMap, sorted by sort.Slice on the
\* score (descending, ties in any order), cut at maxKeywords (10 for 0)
Extract(text, maxKeywords) ==
  LET limit == IF maxKeywords <= 0 THEN 10 ELSE maxKeywords
      m == keywordMap(text)
      keys == { e.key : e \in m }
      picks == { S \in SUBSET m : \A k \in keys : Cardinality({ e \in S : e.key = k }) = 1 }
  IN UNION { { LET keywords == [i \in 1..Len(ord) |->
                                  [Term |-> ord[i].Term, Score |-> ord[i].Score, Type |-> ord[i].Type]]
               IN IF Len(keywords) > limit THEN SubSeq(keywords, 1, limit) ELSE keywords
               : ord \in SortedOrders(S, [e \in S |-> 0 - e.Score]) }
             : S \in picks }

\* the bound of the texts that Extract is applied to
MaxTextLen == 4
Alphabet == { "a", "w", "s", "A", "@", ".", " " }
\* an email address and a full name, longer than MaxTextLen
LongTexts ==
  { <<"a", "@", "s", ".", "a", "w">>, <<"w", "a", "s", "@", "s", ".", "a", "w">>,
    <<"A", "s", " ", "A", "w">>, <<"a", "w", "s", " ", "w", "a", "s", " ", "s", "a", "w", "s">> }
Texts == UNION { [1..n -> Alphabet] : n \in 0..MaxTextLen } \cup LongTexts
KeywordLimits == { 0, 1, 2 }

\* a caller with a text and a maxKeywords, before it calls Extract
InitExtract ==
  /\ mu = NoLock
  /\ callers = << >>
  /\ config = PlainConfig
  /\ enableAsync = FALSE
  /\ workers = << >>
  /\ view = EmptyMap
  /\ heap = << >>
  /\ index = EmptyMap
  /\ categoryIndex = EmptyMap
  /\ tagIndex = EmptyMap
  /\ versionIndex = EmptyMap
  /\ totalSize = 0
  /\ memorySizes = EmptyMap
  /\ disk = EmptyMap
  /\ now = 0
  /\ \E text \in Texts, maxKeywords \in KeywordLimits :
       last = [NoCall EXCEPT !.op = "text", !.query = [NoQuery EXCEPT !.Query = text, !.Limit = maxKeywords]]
  /\ saveQueue = << >>
  /\ queueClosed = FALSE
  /\ shutdownCh = FALSE
  /\ routines = << >>
  /\ closer = "open"
  /\ closeMark = 0

ExtractCall ==
  /\ last.op = "text"
  /\ \E keywords \in Extract(last.query.Query, last.query.Limit) :
       last' = [last EXCEPT !.op = "Extract", !.result = keywords]
  /\ UNCHANGED <<view, mu, callers, config, enableAsync, storeVars, now, asyncVars>>

NextExtract == ExtractCall

SpecExtract == InitExtract /\ [][NextExtract]_vars

\* =================================================================== claims
RECURSIVE Sum(_, _)
Sum(f, keys) ==
  IF keys = {} THEN 0
  ELSE LET k == CHOOSE x \in keys : TRUE IN f[k] + Sum(f, keys \ {k})

\* the versioned ids of a base that the primary index holds
StoredIDs(idx, baseID) == { k \in DOMAIN idx : HasVersionSuffix(k) /\ StripVersion(k) = baseID }
AllBases == { <<b, 0>> : b \in 1..Len(ContentList) }

\* C1: a successful Store of a content whose base has a current record returns
\* version prev.version + 1, previous_version_id = prev.id, is_current_version
\* = true, clears is_current_version on prev, and the base resolves to the new
\* record; when no record of the base exists the result is version 1 with an
\* empty previous_version_id.
C1_StoreVersions ==
  [][ (Len(heap') = Len(heap) + 1 /\ last'.err = "") =>
        LET p == Len(heap')
            m == heap'[p]
            baseID == StripVersion(m.ID)
            stored == StoredIDs(index, baseID)
            current == { k \in stored : heap[index[k]].IsCurrentVersion }
        IN /\ \A k \in current :
                /\ m.Version = heap[index[k]].Version + 1
                /\ m.PreviousVersionID = k
                /\ m.IsCurrentVersion
                /\ ~heap'[index[k]].IsCurrentVersion
                /\ baseID \in DOMAIN index' /\ index'[baseID] = p
           /\ stored = {} => m.Version = 1 /\ m.PreviousVersionID = NoID ]_vars

\* C2: every base that has a record in the store has exactly one current record.
C2_OneCurrent ==
  \A baseID \in AllBases :
     StoredIDs(index, baseID) # {} =>
       Cardinality({ k \in StoredIDs(index, baseID) : heap[index[k]].IsCurrentVersion }) = 1

\* the record is in the primary index under its own id
Indexed(p) == heap[p].ID \in DOMAIN index /\ index[heap[p].ID] = p
\* the fields that a Get does not change
Stable(m) == [m EXCEPT !.AccessCount = 0, !.LastAccess = 0]

\* C3: when Close has returned nil in asynchronous mode, every record whose
\* Store returned before Close was called (and that is still stored) has its
\* file on disk, the file decodes to the record, and no save is pending in
\* the queue or in a worker.
C3_CloseFence ==
  closer = "done" =>
    /\ \A p \in 1..closeMark :
         (Indexed(p) /\ FitsFile(heap[p])) =>
            /\ heap[p].ID \in DOMAIN disk
            /\ Stable(disk[heap[p].ID]) = Stable(heap[p])
    /\ saveQueue = << >>
    /\ \A w \in DOMAIN workers : workers[w].pc = "exited"

\* no goroutine of Store and no worker has a step left
Quiescent ==
  /\ routines = << >>
  /\ \A w \in DOMAIN workers :
       \/ workers[w].pc = "exited"
       \/ workers[w].pc = "idle" /\ saveQueue = << >> /\ ~shutdownCh /\ ~queueClosed

\* C4: in asynchronous mode Store never waits for queue space, and every
\* stored record is persisted, by a worker or by the fallback save of its
\* goroutine: once the goroutines and the workers have nothing left to do,
\* every stored record that fits a file has its file.
C4_EveryStorePersisted ==
  (enableAsync /\ Quiescent) =>
    \A p \in 1..Len(heap) : (Indexed(p) /\ FitsFile(heap[p])) => heap[p].ID \in DOMAIN disk

\* C5: total_size is the sum of memorySizes[id] over the ids of the primary index.
C5_TotalSizeIsIndexedSizes ==
  totalSize = Sum([id \in DOMAIN index |-> SizeOf(memorySizes, id)], DOMAIN index)

\* C6: total_size is the sum of the sizes of the record files on disk.
C6_TotalSizeIsDiskSize ==
  totalSize = Sum([id \in DOMAIN disk |-> EncodedSize(disk[id])], DOMAIN disk)

\* C8: after a retention pass no surviving record was accessed earlier than a
\* record the pass evicted.
C8_EvictsLeastRecent ==
  last.cleanup =>
    \A k \in DOMAIN index : \A i \in 1..Len(last.evicted) :
       HasVersionSuffix(k) => heap[index[k]].LastAccess >= last.evicted[i].lastAccess

\* C9: when a confirmed BulkDelete that matched base B returns, the primary
\* index holds no versioned id and no alias of B, the version index has no
\* entry for B and no record file of B is on disk.
C9_BulkDeleteClosure ==
  (last.op = "BulkDelete" /\ last.err = "") =>
    \A baseID \in last.bases :
       /\ \A k \in DOMAIN index : StripVersion(k) # baseID
       /\ baseID \notin DOMAIN versionIndex
       /\ \A k \in DOMAIN disk : StripVersion(k) # baseID

\* C7: a synchronous Store never returns with total_size above MaxStorageSize;
\* when its save exceeded the limit, retention deleted records in ascending
\* last_access order, each while total_size was still above 0.9 x
\* MaxStorageSize, and total_size <= floor(0.9 x MaxStorageSize) on return.
C7_RetentionBound ==
  (last.op = "Store" /\ last.err = "") =>
    /\ totalSize <= MaxStorageSize
    /\ last.cleanup =>
         /\ 10 * totalSize <= 9 * MaxStorageSize
         /\ \A i \in 1..Len(last.evicted) :
              /\ 10 * last.evicted[i].before > 9 * MaxStorageSize
              /\ \A j \in 1..(i - 1) : last.evicted[j].lastAccess <= last.evicted[i].lastAccess
C7_Witness ==
  /\ last.op = "Store" /\ last.err = "" /\ last.cleanup
  /\ Len(last.evicted) >= 2
  /\ totalSize > 0

\* C10: a BulkDelete without confirm or without a filter fails with
\* bad-request, a Get or Delete of an id absent from the primary index fails
\* with not-found, and the indices, the size counters, the records and the
\* files are as before the call.
C10_RejectedLeavesStore ==
  [][ /\ \A options \in BulkOptions :
           ((~options.Confirm \/ NoFilter(options)) /\ BulkDeleteSync(options)) =>
              (last'.err = "bad-request" /\ UNCHANGED storeVars)
      /\ \A id \in RequestIDs :
           (id \notin DOMAIN index /\ (GetSync(id) \/ DeleteSync(id))) =>
              (last'.err = "not-found" /\ UNCHANGED storeVars) ]_vars
C10_Witness ==
  /\ last.op = "Delete" /\ last.err = "not-found"
  /\ DOMAIN index # {} /\ <<1, 1>> \in DOMAIN disk \ DOMAIN index

\* the base alias points at the stored current version of the base
HasCurrent(baseID) ==
  /\ baseID \in DOMAIN index
  /\ Indexed(index[baseID])
  /\ heap[index[baseID]].IsCurrentVersion

\* C11: a confirmed BulkDelete selects a base if and only if the current
\* version of the base satisfies every supplied predicate; a base in which
\* only a superseded version satisfies them is not selected.
C11_MatchesCurrentVersions ==
  [][ \A options \in BulkOptions :
        (options.Confirm /\ ~NoFilter(options) /\ BulkDeleteSync(options)) =>
           \A baseID \in AllBases :
              HasCurrent(baseID) =>
                (baseID \in last'.bases <=> Matches(heap[index[baseID]], options)) ]_vars

\* the records in the primary index under their own ids
StoredRecords == { p \in 1..Len(heap) : Indexed(p) }
NoDuplicates(result) == \A i, j \in 1..Len(result) : result[i] = result[j] => i = j

\* C12: List returns each record of its candidate set once, newest created
\* first, at most limit records when limit > 0; with no filter and no limit
\* the result is exactly the stored records.
C12_ListEachRecordOnce ==
  last.op = "List" =>
    LET result == last.result
        f == last.query
    IN /\ NoDuplicates(result)
       /\ \A i, j \in 1..Len(result) :
             i < j => heap[result[i]].CreatedAt >= heap[result[j]].CreatedAt
       /\ f.Limit > 0 => Len(result) <= f.Limit
       /\ (f.Category = "" /\ Len(f.Tags) = 0 /\ f.Limit = 0) =>
             ListIDs(result) = StoredRecords

\* the entries of the primary index that Search scores: those in the category
\* list and in one of the tag lists of the query, when the query names them
Candidates(query) ==
  { k \in DOMAIN index :
      /\ query.Category = "" \/ InList(ListOf(categoryIndex, query.Category), k)
      /\ Len(query.Tags) = 0
           \/ \E i \in 1..Len(query.Tags) : InList(ListOf(tagIndex, ToLower(query.Tags[i])), k) }
InContent(memory, query) == Contains(ToLowerText(memory.Content), ToLowerText(query.Query))
InSummary(memory, query) ==
  memory.Summary # << >> /\ Contains(ToLowerText(memory.Summary), ToLowerText(query.Query))
\* the record matches the query in its summary and in nothing else
OnlyInSummary(memory, query) ==
  /\ InSummary(memory, query) /\ ~InContent(memory, query)
  /\ ~(query.Category # "" /\ memory.Category = query.Category)
  /\ ~(Len(query.Tags) > 0 /\ hasAnyTag(memory.Tags, query.Tags))
\* 10 x the score of the claim
Score(memory, query, horizon) ==
    (IF InContent(memory, query) THEN 10 ELSE 0)
  + (IF InSummary(memory, query) THEN 8 ELSE 0)
  + (IF query.Category # "" /\ memory.Category = query.Category THEN 5 ELSE 0)
  + (IF Len(query.Tags) > 0 /\ hasAnyTag(memory.Tags, query.Tags) THEN 3 ELSE 0)
  + (IF memory.LastAccess > horizon THEN 1 ELSE 0)

C14_TiesInInsertionOrder ==
  last.op = "Search" =>
    /\ \A i, j \in 1..Len(last.result) :
          (i < j /\ Score(heap[last.result[i]], last.query, last.horizon)
                     = Score(heap[last.result[j]], last.query, last.horizon))
             => last.result[i] <= last.result[j]
    /\ Search(StoreState, last.query, last.horizon) = { last.result }

Min(a, b) == IF a < b THEN a ELSE b

\* C15: Search cuts its ranked candidates at min(limit, 50) when limit > 0, so
\* that a limit of 100 yields up to 50 records, and at 20 when limit is 0.
C15_SearchLimit ==
  last.op = "Truncate" =>
    Len(last.result) = Min(last.count, IF last.query.Limit = 0 THEN DefaultSearchLimit
                                       ELSE Min(last.query.Limit, MaxSearchLimit))

\* C16: a successful Get of a versioned id or of a base alias adds 1 to the
\* access_count of the record the id resolves to and sets its last_access to
\* the time of the call; no other record and no index changes; and no step
\* decreases the access_count of a record or of a stored id.
C16_GetCountsAccess ==
  [][ /\ \A id \in RequestIDs :
           (id \in DOMAIN index /\ GetSync(id)) =>
              LET p == index[id]
              IN /\ last'.err = "" /\ last'.p = p
                 /\ heap' = [heap EXCEPT ![p].AccessCount = @ + 1, ![p].LastAccess = now']
                 /\ now' > heap[p].LastAccess
                 /\ UNCHANGED <<index, categoryIndex, tagIndex, versionIndex>>
      /\ \A p \in 1..Len(heap) : heap'[p].AccessCount >= heap[p].AccessCount
      /\ \A k \in DOMAIN index \cap DOMAIN index' :
           HasVersionSuffix(k) => heap'[index'[k]].AccessCount >= heap[index[k]].AccessCount ]_vars
\* a Get has returned a record for the second time
C16_Witness ==
  /\ last.op = "Get" /\ last.err = ""
  /\ heap[last.p].AccessCount = 2

\* C17: GetHistory of a base, or of any versioned id of the base, returns the
\* stored versions of the base, all of them, each once, highest version first;
\* it fails only when no version of the base is stored.
C17_HistoryNewestFirst ==
  last.op = "GetHistory" =>
    LET stored == StoredIDs(index, StripVersion(last.id))
        result == last.result
    IN /\ last.err # "" => stored = {}
       /\ last.err = "" =>
            /\ { heap[result[i]].ID : i \in 1..Len(result) } = stored
            /\ \A i \in 1..Len(result) : index[heap[result[i]].ID] = result[i]
            /\ \A i, j \in 1..Len(result) :
                  i < j => heap[result[i]].Version > heap[result[j]].Version
\* after two Stores of one content GetHistory has returned [B-v2, B-v1]
C17_Witness ==
  /\ last.op = "GetHistory" /\ last.err = ""
  /\ HasVersionSuffix(last.id)
  /\ Len(last.result) = 2
  /\ heap[last.result[1]].ID = <<1, 2>> /\ heap[last.result[2]].ID = <<1, 1>>

\* the id is in one of the lists of a secondary index
Listed(idx, id) == \E k \in DOMAIN idx : InList(idx[k], id)

\* C18: after a successful Delete(id) the file of id is gone, total_size is
\* less by the size recorded for id, and the record is reachable through no
\* index: no key of the primary index (the base alias included) points at it,
\* and id is in no category list, tag list or version list and has no size.
C18_DeleteRemovesEverywhere ==
  [][ \A id \in RequestIDs :
        (DeleteSync(id) /\ last'.err = "") =>
           /\ id \notin DOMAIN disk'
           /\ totalSize' = totalSize - SizeOf(memorySizes, id)
           /\ \A k \in DOMAIN index' : index'[k] # index[id]
           /\ ~Listed(categoryIndex', id) /\ ~Listed(tagIndex', id) /\ ~Listed(versionIndex', id)
           /\ id \notin DOMAIN memorySizes' ]_vars

\* the record was stored and has since been deleted (synchronous mode: Store
\* puts every record it creates in the primary index under its own id)
Deleted(p) == ~Indexed(p)
\* the file of the record's id encodes this record
HasFile(p) ==
  /\ heap[p].ID \in DOMAIN disk
  /\ disk[heap[p].ID].CreatedAt = heap[p].CreatedAt

\* C19: deleted is terminal: a record deleted by Delete, BulkDelete or
\* retention is not returned by a later Get, Search or List, and no later
\* operation or save writes its file again.
C19_DeletedIsTerminal ==
  \A p \in 1..Len(heap) :
     Deleted(p) =>
       /\ ~(last.op = "Get" /\ last.err = "" /\ last.p = p)
       /\ last.op \in {"Search", "List"} => \A i \in 1..Len(last.result) : last.result[i] # p
       /\ ~HasFile(p)

\* the encoded size of the record when Store created it
CreatedSize(m) == EncodedSize([m EXCEPT !.AccessCount = 0, !.IsCurrentVersion = TRUE])

\* synchronous mode: a Store succeeds if and only if its record encodes to at
\* most MaxFileSize bytes; a Store that succeeds without retention leaves the
\* file of its record, a Store that fails with size-limit leaves none
SyncSizeLimitBoundary ==
  (~enableAsync /\ last.op = "Store") =>
       /\ last.err = "" <=> CreatedSize(heap[last.p]) <= MaxFileSize
       /\ last.err # "" => (last.err = "size-limit" /\ ~HasFile(last.p))
       /\ (last.err = "" /\ ~last.cleanup) => HasFile(last.p)

\* C20: a Store of a record that encodes to MaxFileSize bytes succeeds and
\* writes the file, a Store of a record that encodes to MaxFileSize + 1 bytes
\* fails with size-limit and writes no file, in synchronous mode and in
\* asynchronous mode, where every Store returns success, so that no record
\* larger than MaxFileSize is ever stored there.
C20_SizeLimitBoundary ==
  /\ SyncSizeLimitBoundary
  /\ enableAsync => \A p \in 1..Len(heap) : CreatedSize(heap[p]) <= MaxFileSize

\* a file that the codec of the running store cannot decode
Damaged(name) ==
  \/ disk[name] = Truncated
  \/ "sealed" \in DOMAIN disk[name] /\ disk[name].key # config.key

Persistent(memory) == [memory EXCEPT !.AccessCount = 0, !.LastAccess = 0]

\* C22: with any codec, a record that the process before had in its index and
\* on disk is, after NewStore on the same directory with the same key, in the
\* index with the same fields but access_count and last_access; the base alias
\* points at it when it is the current version and the version index lists it.
\* (store.go:170 drops the error of the save of the superseded record: a record
\* of exactly MaxFileSize bytes grows by one byte when is_current_version
\* becomes false, and its file keeps saying true.)
C22_RoundTrip ==
  (last.op = "NewStore" /\ \A name \in DOMAIN disk : ~Damaged(name)) =>
     \A id \in DOMAIN last.before :
        (HasVersionSuffix(id) /\ id \in DOMAIN disk) =>
           /\ id \in DOMAIN index
           /\ Persistent(heap[index[id]]) = Persistent(last.before[id])
           /\ heap[index[id]].IsCurrentVersion =>
                /\ StripVersion(id) \in DOMAIN index
                /\ index[StripVersion(id)] = index[id]
           /\ InList(ListOf(versionIndex, StripVersion(id)), id)

\* C23: GetStats counts every stored record once: total_memories is the number
\* of versioned ids in the primary index, the count of a category is the number
\* of those records in the category, and total_access_count is the sum of
\* their access counts.
C23_StatsCountEachRecordOnce ==
  last.op = "GetStats" =>
     LET ids == {id \in DOMAIN index : HasVersionSuffix(id)}
         inCategory(c) == {id \in ids : heap[index[id]].Category = c}
     IN /\ last.stats.total_memories = Cardinality(ids)
        /\ \A c \in {"x"} : SizeOf(last.stats.categories, c) = Cardinality(inCategory(c))
        /\ last.stats.total_access_count
             = Sum([id \in ids |-> heap[index[id]].AccessCount], ids)

\* the keywords a record carries: the Memory of store.go:25-39 has no such field
KeywordsOf(memory) == IF "Keywords" \in DOMAIN memory THEN memory.Keywords ELSE {}

\* the terms of the keywords that Extract returns for the texts of a record
ExtractedTerms(texts) ==
  UNION { { keywords[i].Term : i \in 1..Len(keywords) } : keywords \in UNION { Extract(text, 0) : text \in texts } }

\* C24: a record returned by Store carries the keywords extracted from its
\* content and summary, and once a record with a keyword is stored GetStats
\* reports a unique_keywords count above zero.
C24_StoreExtractsKeywords ==
  /\ (last.op = "Store" /\ last.err = "") =>
        KeywordsOf(heap[last.p]) = ExtractedTerms({heap[last.p].Content, heap[last.p].Summary})
  /\ (last.op = "GetStats"
        /\ \E id \in DOMAIN index :
              ExtractedTerms({heap[index[id]].Content, heap[index[id]].Summary}) # {}) =>
        SizeOf(last.stats, "unique_keywords") > 0

\* C25: in asynchronous mode, once the queue has drained and no save is
\* running, the file of a record in the index shows the record as it was at
\* its most recent enqueue: a superseded record's file says
\* is_current_version = false.
C25_LatestSaveWins ==
  (enableAsync /\ closer = "open" /\ saveQueue = << >> /\ Quiescent) =>
     \A p \in 1..Len(heap) :
        (Indexed(p) /\ heap[p].ID \in DOMAIN disk) =>
           disk[heap[p].ID].IsCurrentVersion = heap[p].IsCurrentVersion

\* C26: at every instant the file at the path of a record holds a complete
\* encoding of a saved state of the record, never an empty or partly written
\* file, also while two saves of the same id run.
C26_RecordFileComplete ==
  \A name \in DOMAIN disk : ~IsTempName(name) => IsRecord(disk[name])

\* C27: no operation writes, renames or removes a file while it holds the
\* store lock: the directory changes only in steps that start with s.mu free.
C27_NoFileOperationUnderLock ==
  [][disk' # disk => mu = NoLock]_vars

\* the thread holds s.mu, exclusively or shared
Holding(c) == mu.writer = c \/ c \in mu.readers
\* the thread is at a step that reads or writes s.index, s.memorySizes or
\* s.totalSize
Accessing(c) ==
  callers[c].pc \in {"body", "account", "delete", "read", "ranging", "loop"}

\* C28: every access to the primary index, the size table and total_size is
\* under the store lock, the accesses of retention included, so no thread
\* iterates them while another thread holds the lock to change them.
C28_AccessesUnderLock ==
  \A c \in DOMAIN callers : Accessing(c) => Holding(c)

\* C29: in asynchronous mode a Store issued after Close has closed the save
\* queue does not end the process: once its goroutines have run, the record
\* it stored, and the record it superseded, are written to their files by
\* the synchronous save of the recover path.
C29_StoreAfterCloseIsSaved ==
  (queueClosed /\ routines = << >>) =>
    \A p \in (closeMark + 1)..Len(heap) :
      /\ (Indexed(p) /\ FitsFile(heap[p])) =>
            /\ heap[p].ID \in DOMAIN disk
            /\ IsRecord(disk[heap[p].ID])
            /\ disk[heap[p].ID].Content = heap[p].Content
      /\ \A q \in 1..Len(heap) :
            (heap[p].PreviousVersionID = heap[q].ID /\ Indexed(q) /\ FitsFile(heap[q])) =>
               heap[q].ID \in DOMAIN disk

C29_Witness ==
  /\ queueClosed /\ routines = << >>
  /\ \E p \in (closeMark + 1)..Len(heap), q \in 1..Len(heap) :
       /\ heap[p].PreviousVersionID = heap[q].ID
       /\ Indexed(p) /\ Indexed(q)
       /\ heap[p].ID \in DOMAIN disk
       /\ heap[q].ID \in DOMAIN disk
       /\ disk[heap[q].ID].IsCurrentVersion = FALSE

\* the sequence of records contains record p
Includes(result, p) == \E i \in 1..Len(result) : result[i] = p

\* C30: as soon as Store returns in asynchronous mode, before any goroutine or
\* worker has written the file, the new record is visible to readers: Get by
\* its versioned id and Get by its base id both succeed and return it, every
\* unfiltered List includes it, and every Search for its content includes it.
C30_VisibleWhenStoreReturns ==
  [][(enableAsync /\ Len(heap') = Len(heap) + 1) =>
       LET p == Len(heap')
           memory == heap'[p]
           baseID == <<memory.ID[1], 0>>
       IN /\ Get(StoreState', memory.ID, now').err = "" /\ Get(StoreState', memory.ID, now').p = p
          /\ Get(StoreState', baseID, now').err = "" /\ Get(StoreState', baseID, now').p = p
          /\ \A result \in List(StoreState', "", << >>, 0) : Includes(result, p)
          /\ \A result \in Search(StoreState', [NoQuery EXCEPT !.Query = memory.Content], now' - 1) :
                Includes(result, p)]_vars

\* Store has returned a second version whose file is not written yet, and no
\* file of the first version is written either
C30_Witness ==
  /\ enableAsync
  /\ \E p \in 1..Len(heap) :
       /\ Indexed(p)
       /\ heap[p].Version = 2
       /\ heap[p].ID \notin DOMAIN disk
       /\ heap[p].PreviousVersionID \notin DOMAIN disk
       /\ \E k \in DOMAIN routines : routines[k].p = p /\ routines[k].pc = "send"

AllExited == \A w \in DOMAIN workers : workers[w].pc = "exited"

\* C31: Close terminates.  In asynchronous mode, once Close has closed the
\* shutdown signal every worker eventually exits and Close eventually
\* returns; it returns nil only when every worker has exited and the timeout
\* error only when one has not.  In synchronous mode Close returns nil at
\* once and changes nothing of the store.
C31_CloseTerminates ==
  /\ (enableAsync /\ shutdownCh) ~> AllExited
  /\ (closer = "signalled") ~> (closer \in {"done", "timeout"})
  /\ [][(enableAsync /\ closer = "waiting" /\ closer' = "done") => AllExited]_vars
  /\ [][(enableAsync /\ closer = "waiting" /\ closer' = "timeout") => ~AllExited]_vars
  /\ [][(~enableAsync /\ closer = "open" /\ closer' # "open") =>
          /\ closer' = "done"
          /\ last'.err = ""
          /\ UNCHANGED <<storeVars, saveQueue, queueClosed, shutdownCh, routines, workers>>]_vars

\* Close returned nil in asynchronous mode after a worker saved a record
\* that was still queued when the shutdown signal was closed
C31_Witness ==
  /\ enableAsync /\ closer = "done" /\ AllExited
  /\ closeMark = 1
  /\ heap[1].ID \in DOMAIN disk

\* C32: in every reachable state, every record of the primary index is
\* listed in the tag index under each of its tags, lowercased, and in the
\* category index under its category, lowercased, when it has one.
C32_SecondaryIndicesCoverPrimary ==
  \A k \in DOMAIN index :
    LET memory == heap[index[k]]
    IN /\ memory.Category # "" => InList(ListOf(categoryIndex, ToLower(memory.Category)), memory.ID)
       /\ \A i \in 1..Len(memory.Tags) :
            InList(ListOf(tagIndex, ToLower(memory.Tags[i])), memory.ID)

\* the record a file encodes, the layers of the codec taken off
Plain(data) ==
  LET opened == IF "sealed" \in DOMAIN data THEN data.sealed ELSE data
  IN IF IsGzip(opened) THEN opened.gzip ELSE opened

C34_KeywordsAreClean ==
  last.op = "Extract" =>
    \A i \in 1..Len(last.result) :
      /\ Len(last.result[i].Term) >= 3
      /\ ToLowerText(last.result[i].Term) \notin StopWords

\* C35: a synchronous Store that returns an error leaves the store as before
\* the call: the indices, every record that existed (its current flag
\* included) and the files are unchanged, so the new record is in no index and
\* the base alias resolves to the previous current record.
C35_FailedStoreLeavesStore ==
  [][ (~enableAsync /\ Len(heap') = Len(heap) + 1 /\ last'.op = "Store" /\ last'.err # "") =>
        /\ UNCHANGED <<index, categoryIndex, tagIndex, versionIndex, disk>>
        /\ \A q \in 1..Len(heap) : heap'[q] = heap[q] ]_vars

\* C36: when a synchronous Store returns success, the record it wrote is in
\* the primary index under the returned versioned id and its file exists,
\* whatever the retention pass of that Store evicted.
C36_StoredSurvivesRetention ==
  (~enableAsync /\ last.op = "Store" /\ last.err = "") =>
     /\ heap[last.p].ID \in DOMAIN index
     /\ index[heap[last.p].ID] = last.p
     /\ heap[last.p].ID \in DOMAIN disk

\* the records of the content that Store created, in the order of creation
SameContent(p, q) == heap[p].Content = heap[q].Content
NextOf(p, q) == p < q /\ SameContent(p, q) /\ \A r \in (p + 1)..(q - 1) : ~SameContent(r, q)

\* C37: Store calls with identical content, concurrent or not, never produce
\* the same versioned id: of two records of the content the later one has the
\* higher version; a record and the next one created have consecutive
\* versions, the later names the earlier as previous version and the earlier
\* is no longer current; the latest one is current; the version index of the
\* base lists every one of them.  (Stated for the states in which no thread is
\* inside the critical section between its look-up and its insertion.)
C37_ConcurrentStoresGetDistinctVersions ==
  (\A c \in DOMAIN callers : callers[c].pc # "insert") =>
  \A q \in 1..Len(heap) :
    /\ InList(ListOf(versionIndex, generateID(heap[q].Content)), heap[q].ID)
    /\ (\A r \in (q + 1)..Len(heap) : ~SameContent(q, r)) => heap[q].IsCurrentVersion
    /\ \A p \in 1..(q - 1) :
         SameContent(p, q) =>
           /\ heap[p].ID # heap[q].ID
           /\ heap[p].Version < heap[q].Version
           /\ ~heap[p].IsCurrentVersion
           /\ NextOf(p, q) => /\ heap[q].Version = heap[p].Version + 1
                              /\ heap[q].PreviousVersionID = heap[p].ID
\* two threads are in Store with the same content at once, have both created
\* their records, versions 1 and 2, and neither has returned
C37_Witness ==
  \E c, d \in DOMAIN callers :
    /\ c # d /\ callers[c].op = "Store" /\ callers[d].op = "Store"
    /\ callers[c].doc = callers[d].doc
    /\ callers[c].p # 0 /\ callers[d].p # 0
    /\ heap[callers[c].p].Version = 1 /\ heap[callers[d].p].Version = 2
    /\ callers[c].pc = "save" /\ callers[d].pc = "save"

\* a thread is at a Lock or RLock and has not got the lock yet
LockPcs == {"lock", "lock2", "lock3", "lock4", "lock5", "lock6", "rlock"}
AtLock(c) == callers[c].pc \in LockPcs
HoldsLock(c) == mu.writer = c \/ c \in mu.readers

\* a thread that has the lock is at the Unlock that follows and can take it
CanRelease(c) ==
  \/ mu.writer = c /\ ENABLED Unlock(c)
  \/ c \in mu.readers /\ ENABLED RUnlock(c)

StoredInCategory ==
  { index[k] : k \in { k \in DOMAIN index : heap[index[k]].Category = last.query.Category } }

\* C39: category filtering finds what was stored.  After List(c, nil, 0) and
\* after a Search with Category = c that no limit cuts, every record of the
\* index that was stored with category c is among the results, whatever the
\* letter case of c (in Search by the category score alone).
C39_CategoryFindsStored ==
  (last.op \in {"List", "Search"} /\ last.query.Category # "") =>
     \A p \in StoredInCategory : InList(last.result, p)

\* no save is queued or running
Drained ==
  /\ saveQueue = << >>
  /\ routines = << >>
  /\ \A w \in DOMAIN workers : workers[w].pc \in {"idle", "exited"}

\* C40: in asynchronous mode a Delete of a versioned id of the index
\* succeeds, whether or not the queued save of the record has been written;
\* the id is then out of the index, and once the queue has drained no file
\* of it exists.
C40_DeleteBeforeSave ==
  (enableAsync /\ last.op = "Delete") =>
     /\ last.err = ""
     /\ last.id \notin DOMAIN index
     /\ Drained => last.id \notin DOMAIN disk

====
